---- MODULE Spec2Model ----
(***************************************************************************)
(* Model of the firevault validation engine: the rule registry, the        *)
(* annotation parser, the rule-chain interpreter, the recursive traversal  *)
(* and the error formatter chain.                                          *)
(*                                                                         *)
(* Strings are sequences of symbols.  A symbol is either one of the        *)
(* separator characters the code looks for (",", "=", ".", " ") or a run   *)
(* of characters that contains none of them and that the code only ever    *)
(* inspects as a whole ("required", "_create", "transform").               *)
(***************************************************************************)
EXTENDS Integers, Sequences, FiniteSets, TLC

VARIABLES
    validations,     \* v.validations: rule name -> [fn, runOnNil]
    transformations, \* v.transformations: rule name -> [fn, runOnNil]
    errFormatters,   \* v.errFormatters, in registration order
    nRegs,           \* registrations accepted so far
    last,            \* the call in progress: its arguments and what it returned
    cache,           \* the metadata cache: record type -> parsed metadata
    calls,           \* the concurrent validate calls: each caller's position and locals
    heap,            \* the backing arrays of the string slices Options values hold
    options,         \* the Options values a caller holds: o, and o1, o2 derived from it
    store,           \* the collection: document ID -> the document's field v, 0 when absent
    answer,          \* the query in progress and what Find and Count returned for it
    graph,           \* the records a self-containing record value is made of
    walk             \* validate's recursion over them: the frames of validateFields

\* the state of the parts other than the validator and its cache
elsewhere == <<heap, options, store, answer, graph, walk>>

vars == <<validations, transformations, errFormatters, nRegs, last, cache, calls, elsewhere>>

----------------------------------------------------------------------------
(* Bounds *)

\* registrations accepted by one engine
MaxRegs == 2

\* longest string held by a field of the "Range" record
MaxLen == 6

\* callers that validate concurrently on one engine
NCallers == 2

----------------------------------------------------------------------------
(* Local variables *)

\* x := e; ... x ... x ... is written Only({... x ... x ... : x \in {e}}): e
\* is evaluated once, when the statement runs, and x holds its value
Only(S) == CHOOSE x \in S : TRUE

----------------------------------------------------------------------------
(* Strings *)

RECURSIVE IndexOf(_, _, _)
\* position of the first occurrence of symbol c in s at or after i, 0 if none
IndexOf(s, c, i) ==
    IF i > Len(s) THEN 0
    ELSE IF s[i] = c THEN i
    ELSE IndexOf(s, c, i + 1)

RECURSIVE SplitFrom(_, _, _)
\* the pieces of s from position i on
SplitFrom(s, sep, i) ==
    Only({IF k = 0 THEN <<SubSeq(s, i, Len(s))>>
          ELSE <<SubSeq(s, i, k - 1)>> \o SplitFrom(s, sep, k + 1)
          : k \in {IndexOf(s, sep, i)}})

\* strings.Split(s, sep) for a one-symbol separator
Split(s, sep) == SplitFrom(s, sep, 1)

RECURSIVE TrimLeft(_)
TrimLeft(s) ==
    IF s # <<>> /\ Head(s) = " " THEN TrimLeft(Tail(s)) ELSE s

RECURSIVE TrimRight(_)
TrimRight(s) ==
    IF s # <<>> /\ s[Len(s)] = " " THEN TrimRight(SubSeq(s, 1, Len(s) - 1)) ELSE s

\* strings.TrimSpace
TrimSpace(s) == TrimRight(TrimLeft(s))

\* strings.HasPrefix
HasPrefix(s, p) == Len(s) >= Len(p) /\ SubSeq(s, 1, Len(p)) = p

\* strings.HasSuffix
HasSuffix(s, p) == Len(s) >= Len(p) /\ SubSeq(s, Len(s) - Len(p) + 1, Len(s)) = p

\* strings.TrimPrefix
TrimPrefix(s, p) == IF HasPrefix(s, p) THEN SubSeq(s, Len(p) + 1, Len(s)) ELSE s

\* strings.Cut(s, sep): <<before, after>> around the first sep
Cut(s, sep) ==
    Only({IF k = 0 THEN <<s, <<>>>>
          ELSE <<SubSeq(s, 1, k - 1), SubSeq(s, k + 1, Len(s))>>
          : k \in {IndexOf(s, sep, 1)}})

\* slices.Contains
Contains(list, x) == \E i \in 1..Len(list) : list[i] = x

\* strings.ToUpper on the letters of the model's alphabet
ToUpper(s) == [i \in 1..Len(s) |-> IF s[i] = "a" THEN "A" ELSE s[i]]

\* strings.ToLower on the letters of the model's alphabet
ToLower(s) == [i \in 1..Len(s) |-> IF s[i] = "A" THEN "a" ELSE s[i]]

RECURSIVE JoinFrom(_, _, _)
\* the pieces from position i on, joined
JoinFrom(parts, sep, i) ==
    IF i > Len(parts) THEN <<>>
    ELSE IF i = Len(parts) THEN parts[i]
    ELSE parts[i] \o <<sep>> \o JoinFrom(parts, sep, i + 1)

\* strings.Join(parts, sep) for a one-symbol separator
Join(parts, sep) == JoinFrom(parts, sep, 1)

----------------------------------------------------------------------------
(* Operation methods *)

validate == <<"validate">>
create == <<"create">>
update == <<"update">>

Methods == {validate, create, update}

----------------------------------------------------------------------------
(* Built-in rules *)

\* (the backquote character is written "backquote")
restrictedTagChars ==
    {".", "[", "]", ",", "|", "=", "+", "(", ")", "backquote", "~", "!", "@", "#", "$",
     "%", "^", "&", "*", "\\", "\"", "/", "?", "<", ">", "{", "}"}

restrictedRules ==
    {<<"dive">>, <<"omitempty">>, <<"omitempty", "_create">>,
     <<"omitempty", "_update">>, <<"omitempty", "_validate">>}

builtInValidators ==
    [n \in {<<"required">>, <<"required", "_create">>, <<"required", "_update">>,
            <<"required", "_validate">>, <<"email">>, <<"max">>, <<"min">>} |->
        CASE n[1] = "required" -> "validateRequired"
          [] n = <<"email">> -> "validateEmail"
          [] n = <<"max">> -> "validateMax"
          [] n = <<"min">> -> "validateMin"]

builtInTransformators ==
    [n \in {<<"uppercase">>, <<"lowercase">>, <<"trim_space">>} |->
        CASE n = <<"uppercase">> -> "transformUppercase"
          [] n = <<"lowercase">> -> "transformLowercase"
          [] n = <<"trim_space">> -> "transformTrimSpace"]

\* strings.ContainsAny(name, restrictedTagChars)
ContainsAny(name, chars) == \E i \in 1..Len(name) : name[i] \in chars

\* strings.Contains(name, "required") on the built-in rule names
ContainsRequired(name) == \E i \in 1..Len(name) : name[i] = "required"

\* the absent implementation (a nil function value)
NilFn == "nil"

----------------------------------------------------------------------------
(* Registry *)

\* newValidator: the registry right after construction
newValidations ==
    [n \in DOMAIN builtInValidators |->
        [fn |-> builtInValidators[n], runOnNil |-> ContainsRequired(n)]]

newTransformations ==
    [n \in DOMAIN builtInTransformators |->
        [fn |-> builtInTransformators[n], runOnNil |-> FALSE]]

\* a map assignment that keeps the value a key already has
MapSetKeepFirst(m, k, v) == [x \in DOMAIN m \cup {k} |-> IF x \in DOMAIN m THEN m[x] ELSE v]

\* m[k] = v of a Go map
MapSet(m, k, v) == [x \in DOMAIN m \cup {k} |-> IF x = k THEN v ELSE m[x]]

\* a registration that does not look the name up among the structural tokens
registerValidationErrAnyName(name, validation, builtIn) ==
    IF Len(name) = 0 THEN "name cannot be empty"
    ELSE IF ~builtIn /\ ContainsAny(name, restrictedTagChars)
    THEN "restricted characters or same as a built-in rule"
    ELSE IF validation = NilFn THEN "function cannot be empty"
    ELSE ""

\* error returned by registerValidation, "" when it registers
registerValidationErr(name, validation, builtIn) ==
    IF Len(name) = 0 THEN "name cannot be empty"
    ELSE IF ~builtIn /\ (name \in restrictedRules \/ ContainsAny(name, restrictedTagChars))
    THEN "restricted characters or same as a built-in rule"
    ELSE IF validation = NilFn THEN "function cannot be empty"
    ELSE ""

\* a registration check that lets an absent implementation through
registerTransformationErrNoNil(name, transformation, builtIn) ==
    IF Len(name) = 0 THEN "name cannot be empty"
    ELSE IF ~builtIn /\ (name \in restrictedRules \/ ContainsAny(name, restrictedTagChars))
    THEN "restricted characters or same as a built-in rule"
    ELSE ""

\* error returned by registerTransformation, "" when it registers
registerTransformationErr(name, transformation, builtIn) ==
    IF Len(name) = 0 THEN "name cannot be empty"
    ELSE IF ~builtIn /\ (name \in restrictedRules \/ ContainsAny(name, restrictedTagChars))
    THEN "restricted characters or same as a built-in rule"
    ELSE IF transformation = NilFn THEN "function cannot be empty"
    ELSE ""

----------------------------------------------------------------------------
(* Values: a reflect.Value is a kind, a type and a payload *)

\* the payload has one field per shape, so that any two values compare:
\* s the symbols of a string, n an integer, f the fields of a struct or the
\* target of a pointer, m the key/value pairs of a map
Value(kind, typ, s, n, f, m) == [kind |-> kind, typ |-> typ, s |-> s, n |-> n, f |-> f, m |-> m]

StrV(s) == Value("string", "string", s, 0, <<>>, <<>>)
IntV(n) == Value("int", "int", <<>>, n, <<>>, <<>>)
\* a non-nil pointer to x, and the nil pointer of element type t
PtrV(x) == Value("ptr", "*" \o x.typ, <<>>, 0, <<x>>, <<>>)
NilPtr(t) == Value("ptr", "*" \o t, <<>>, 0, <<>>, <<>>)
StructV(t, fields) == Value("struct", t, <<>>, 0, fields, <<>>)
\* a slice of element type t: the nil slice when it has no element (the
\* slices of the model are nil or hold at least one element)
SliceV(t, elems) == Value("slice", "[]" \o t, <<>>, 0, elems, <<>>)
\* the map[string]interface{} validateFields builds: key/value pairs
MapV(pairs) == Value("map", "map[string]interface {}", <<>>, 0, <<>>, pairs)
\* the nil interface / nil map
NilV == Value("invalid", "nil", <<>>, 0, <<>>, <<>>)

\* reflect.Value.IsNil of a pointer
IsNil(value) == value.kind \in {"ptr", "slice"} /\ value.f = <<>>

RECURSIVE IsZero(_)
\* reflect.Value.IsZero
IsZero(value) ==
    CASE value.kind = "string" -> value.s = <<>>
      [] value.kind = "int" -> value.n = 0
      [] value.kind = "struct" -> \A i \in 1..Len(value.f) : IsZero(value.f[i])
      [] value.kind = "ptr" -> value.f = <<>>
      [] value.kind = "slice" -> value.f = <<>>
      [] OTHER -> FALSE

\* reflect.Value.IsValid
IsValid(value) == value.kind # "invalid"

\* built_in.go isSupported
isSupported(fieldKind) == fieldKind \notin {"invalid", "chan", "func"}

\* built_in.go hasValue
hasValue(fieldKind, fieldValue) ==
    IF fieldKind \in {"slice", "map", "ptr", "interface"}
    THEN ~IsNil(fieldValue)
    ELSE IsValid(fieldValue) /\ ~IsZero(fieldValue)

\* reflect.Value.Len of a string or a slice
ValueLen(value) == IF value.kind = "string" THEN Len(value.s) ELSE Len(value.f)

\* reflect.Value.String: the string itself, "<T Value>" for other kinds
ValueString(value) ==
    IF value.kind = "string" THEN value.s ELSE <<"<" \o value.typ \o " Value>">>

\* values of the type can be compared with ==; comparing two interface
\* values that hold the same type panics otherwise
Comparable(value) == value.kind \notin {"slice", "map"}

\* a == b on two interface values holding comparable dynamic types
InterfaceEq(a, b) == a.typ = b.typ /\ a.s = b.s /\ a.n = b.n /\ a.f = b.f

----------------------------------------------------------------------------
(* Errors *)

\* an error value: its kind, and for a fieldError the snapshot of the field
ErrorV(kind, msg, by) ==
    [kind |-> kind, msg |-> msg, by |-> by, field |-> <<>>, structField |-> <<>>,
     path |-> <<>>, structPath |-> <<>>, value |-> NilV, rule |-> <<>>, param |-> <<>>]

NoErr == ErrorV("nil", "", "")

\* errors.New(msg)
ErrorsNew(msg) == ErrorV("error", msg, "")

\* the error a user-supplied rule implementation returns
UserErr(fn) == ErrorV("userError", "", fn)

\* the error a formatter returns for a field error
FormattedErr(f, fe) == [fe EXCEPT !.kind = "formatted", !.by = f]

\* a run-time panic
Panic(msg) == ErrorV("panic", msg, "")

----------------------------------------------------------------------------
(* Rule implementations *)

\* decimal parameters the annotations of the model use
asInt(param) ==
    CASE param = <<"1">> -> [n |-> 1, err |-> NoErr]
      [] param = <<"2">> -> [n |-> 2, err |-> NoErr]
      [] param = <<"3">> -> [n |-> 3, err |-> NoErr]
      [] param = <<"5">> -> [n |-> 5, err |-> NoErr]
      [] param = <<"18">> -> [n |-> 18, err |-> NoErr]
      [] OTHER -> [n |-> 0, err |-> ErrorsNew("invalid syntax")]

validateRequired(fs) == [valid |-> hasValue(fs.value.kind, fs.value), err |-> NoErr]

validateMin(fs) ==
    IF fs.param = <<>> THEN [valid |-> FALSE, err |-> ErrorsNew("provide a min param")]
    ELSE IF fs.value.kind \in {"string", "slice"}
    THEN LET i == asInt(fs.param) IN
         IF i.err # NoErr THEN [valid |-> FALSE, err |-> i.err]
         ELSE [valid |-> ValueLen(fs.value) >= i.n, err |-> NoErr]
    ELSE IF fs.value.kind = "int"
    THEN LET i == asInt(fs.param) IN
         IF i.err # NoErr THEN [valid |-> FALSE, err |-> i.err]
         ELSE [valid |-> fs.value.n >= i.n, err |-> NoErr]
    ELSE [valid |-> FALSE, err |-> ErrorsNew("invalid field type")]

\* max that measures strings and numbers only
validateMaxStringOnly(fs) ==
    IF fs.param = <<>> THEN [valid |-> FALSE, err |-> ErrorsNew("provide a max param")]
    ELSE IF fs.value.kind = "string"
    THEN [valid |-> ValueLen(fs.value) <= asInt(fs.param).n, err |-> asInt(fs.param).err]
    ELSE IF fs.value.kind = "int"
    THEN [valid |-> fs.value.n <= asInt(fs.param).n, err |-> asInt(fs.param).err]
    ELSE [valid |-> FALSE, err |-> ErrorsNew("invalid field type")]

validateMax(fs) ==
    IF fs.param = <<>> THEN [valid |-> FALSE, err |-> ErrorsNew("provide a max param")]
    ELSE IF fs.value.kind \in {"string", "slice"}
    THEN LET i == asInt(fs.param) IN
         IF i.err # NoErr THEN [valid |-> FALSE, err |-> i.err]
         ELSE [valid |-> ValueLen(fs.value) <= i.n, err |-> NoErr]
    ELSE IF fs.value.kind = "int"
    THEN LET i == asInt(fs.param) IN
         IF i.err # NoErr THEN [valid |-> FALSE, err |-> i.err]
         ELSE [valid |-> fs.value.n <= i.n, err |-> NoErr]
    ELSE [valid |-> FALSE, err |-> ErrorsNew("invalid field type")]

\* every symbol of s is a letter, and there is at least one
IsWord(s) == s # <<>> /\ \A i \in 1..Len(s) : s[i] \in {"a", "A"}

\* the email pattern on the strings of the model: dot-separated words, "@",
\* and at least two dot-separated words
validateEmail(fs) ==
    LET s == ValueString(fs.value)
        parts == Split(s, "@")
        local == Split(parts[1], ".")
        domain == IF Len(parts) = 2 THEN Split(parts[2], ".") ELSE <<>>
    IN [valid |-> /\ Len(parts) = 2
                  /\ \A i \in 1..Len(local) : IsWord(local[i])
                  /\ Len(domain) >= 2
                  /\ \A i \in 1..Len(domain) : IsWord(domain[i]),
        err |-> NoErr]

transformUppercase(fs) ==
    IF fs.value.kind # "string" THEN [value |-> fs.value, err |-> NoErr]
    ELSE [value |-> StrV(ToUpper(fs.value.s)), err |-> NoErr]

transformLowercase(fs) ==
    IF fs.value.kind # "string" THEN [value |-> fs.value, err |-> NoErr]
    ELSE [value |-> StrV(ToLower(fs.value.s)), err |-> NoErr]

transformTrimSpace(fs) ==
    IF fs.value.kind # "string" THEN [value |-> fs.value, err |-> NoErr]
    ELSE [value |-> StrV(TrimSpace(fs.value.s)), err |-> NoErr]

\* user-supplied validations: one that passes, one that fails, one that errors
UserValidations == {"vTrue", "vFalse", "vErr"}

\* user-supplied transformations: strings.ToUpper(fs.Value().String()) of the
\* tests, and one that returns an error
UserTransformations == {"tUpper", "tErr"}

\* validation.fn(ctx, fs)
CallValidation(fn, fs) ==
    CASE fn = "validateRequired" -> validateRequired(fs)
      [] fn = "validateMin" -> validateMin(fs)
      [] fn = "validateMax" -> validateMax(fs)
      [] fn = "validateEmail" -> validateEmail(fs)
      [] fn = "vTrue" -> [valid |-> TRUE, err |-> NoErr]
      [] fn = "vFalse" -> [valid |-> FALSE, err |-> NoErr]
      [] fn = "vErr" -> [valid |-> FALSE, err |-> UserErr(fn)]

\* transformation.fn(ctx, fs)
CallTransformation(fn, fs) ==
    CASE fn = "transformUppercase" -> transformUppercase(fs)
      [] fn = "transformLowercase" -> transformLowercase(fs)
      [] fn = "transformTrimSpace" -> transformTrimSpace(fs)
      [] fn = "tUpper" -> [value |-> StrV(ToUpper(ValueString(fs.value))), err |-> NoErr]
      [] fn = "tErr" -> [value |-> NilV, err |-> UserErr(fn)]

\* error formatters: one that declines, the one of the tests (formats the
\* failures of rule "required"), one that formats every failure
Formatters == {"fNil", "fRequired", "fAll"}

\* formatter(fe)
CallFormatter(f, fe) ==
    CASE f = "fNil" -> NoErr
      [] f = "fRequired" -> IF fe.rule = <<"required">> THEN FormattedErr(f, fe) ELSE NoErr
      [] f = "fAll" -> FormattedErr(f, fe)

----------------------------------------------------------------------------
(* The engine *)

\* one invocation of a rule implementation or of a formatter, as the caller
\* of validate can observe it
Invocation(ev, fn, fs) ==
    [ev |-> ev, fn |-> fn, rule |-> fs.rule, param |-> fs.param,
     path |-> fs.path, value |-> fs.value]

RECURSIVE formatErrFrom(_, _, _)
\* a chain in which every formatter is invoked and the last one that
\* returns an error decides
formatErrLastWins(fe, i, log) ==
    IF i > Len(errFormatters) THEN [err |-> fe, log |-> log]
    ELSE LET formatter == errFormatters[i]
             err == CallFormatter(formatter, fe)
             rest == formatErrFrom(fe, i + 1, Append(log, Invocation("fmt", formatter, fe)))
         IN IF err # NoErr /\ rest.err = fe THEN [err |-> err, log |-> rest.log] ELSE rest

\* formatErr, from formatter i on
formatErrFrom(fe, i, log) ==
    IF i > Len(errFormatters) THEN [err |-> fe, log |-> log]
    ELSE Only({IF err # NoErr THEN [err |-> err, log |-> log1]
               ELSE formatErrFrom(fe, i + 1, log1)
               : <<err, log1>> \in {<<CallFormatter(errFormatters[i], fe),
                                      Append(log, Invocation("fmt", errFormatters[i], fe))>>}})

formatErr(fe, log) == formatErrFrom(fe, 1, log)

\* parse rule tags
parseTag(tag) ==
    Only({[idx \in 1..Len(rules) |-> TrimSpace(rules[idx])] : rules \in {Split(tag, ",")}})

\* get dot-separated field path
\* a path that names the field alone, whatever its parent
getFieldPathLeaf(path, fieldName) == fieldName

getFieldPath(path, fieldName) ==
    IF path = <<>> THEN fieldName ELSE path \o <<".">> \o fieldName

validateFieldType(fieldKind, fieldPath) ==
    IF ~isSupported(fieldKind) THEN ErrorsNew("unsupported field type") ELSE NoErr

\* a skip decision that takes any omitempty token, whatever its method
shouldSkipFieldAnyMethod(fs, rules, opts) ==
    LET shouldOmitEmpty == \E i \in 1..Len(rules) : HasPrefix(rules[i], <<"omitempty">>)
    IN IF shouldOmitEmpty /\ ~Contains(opts.emptyFieldsAllowed, fs.path)
       THEN ~hasValue(fs.value.kind, fs.value)
       ELSE FALSE

shouldSkipField(fs, rules, opts) ==
    LET omitEmptyMethod == <<"omitempty", "_" \o opts.method[1]>>
        shouldOmitEmpty == Contains(rules, <<"omitempty">>) \/ Contains(rules, omitEmptyMethod)
    IN IF shouldOmitEmpty /\ ~Contains(opts.emptyFieldsAllowed, fs.path)
       THEN ~hasValue(fs.value.kind, fs.value)
       ELSE FALSE

RECURSIVE cleanRulesFrom(_, _)
cleanRulesFrom(rules, index) ==
    IF index > Len(rules) THEN <<>>
    ELSE LET rule == rules[index] IN
         (IF index # 1 /\ rule # <<"omitempty">> /\ rule # <<"omitempty", "_create">>
             /\ rule # <<"omitempty", "_update">> /\ rule # <<"omitempty", "_validate">>
             /\ rule # <<"dive">>
          THEN <<rule>> ELSE <<>>) \o cleanRulesFrom(rules, index + 1)

\* remove name, dive and omitempty from rules
cleanRules(rules) == cleanRulesFrom(rules, 1)

\* the fieldError applyRules builds from the field scope
NewFieldError(fs) ==
    [ErrorV("fieldError", "", "") EXCEPT
        !.field = fs.field, !.structField = fs.structField, !.path = fs.path,
        !.structPath = fs.structPath, !.value = fs.value]

\* a transformation step that calls the transformation and drops what it returns
applyTransformationDropped(fs, fe, rule, log) ==
    LET transName == TrimPrefix(rule, <<"transform", "=">>)
        fe1 == [fe EXCEPT !.rule = transName]
        fs1 == [fs EXCEPT !.rule = transName]
    IN IF transName \notin DOMAIN transformations
       THEN LET r == formatErr(fe1, log) IN [fs |-> fs1, err |-> r.err, log |-> r.log]
       ELSE LET transformation == transformations[transName] IN
            IF ~hasValue(fs1.value.kind, fs1.value) /\ ~transformation.runOnNil
            THEN [fs |-> fs1, err |-> NoErr, log |-> log]
            ELSE LET r == CallTransformation(transformation.fn, fs1)
                     log1 == Append(log, Invocation("trans", transformation.fn, fs1))
                 IN [fs |-> fs1, err |-> r.err, log |-> log1]

\* apply transformation rule
\* a transformation step that hands the implementation's error to the
\* formatters as a field error
applyTransformationFormatsErr(fs, fe, rule, log) ==
    LET transName == TrimPrefix(rule, <<"transform", "=">>)
        fe1 == [fe EXCEPT !.rule = transName]
        fs1 == [fs EXCEPT !.rule = transName]
    IN IF transName \notin DOMAIN transformations
       THEN Only({[fs |-> fs1, err |-> r.err, log |-> r.log] : r \in {formatErr(fe1, log)}})
       ELSE LET transformation == transformations[transName] IN
            IF ~hasValue(fs1.value.kind, fs1.value) /\ ~transformation.runOnNil
            THEN [fs |-> fs1, err |-> NoErr, log |-> log]
            ELSE LET log1 == Append(log, Invocation("trans", transformation.fn, fs1)) IN
                 Only({IF r.err # NoErr
                       THEN Only({[fs |-> fs1, err |-> f.err, log |-> f.log]
                                  : f \in {formatErr(fe1, log1)}})
                       ELSE IF ~InterfaceEq(r.value, fs1.value)
                       THEN [fs |-> [fs1 EXCEPT !.value = r.value, !.ref = "new"],
                             err |-> NoErr, log |-> log1]
                       ELSE [fs |-> fs1, err |-> NoErr, log |-> log1]
                       : r \in {CallTransformation(transformation.fn, fs1)}})

applyTransformation(fs, fe, rule, log) ==
    LET transName == TrimPrefix(rule, <<"transform", "=">>)
        fe1 == [fe EXCEPT !.rule = transName]
        fs1 == [fs EXCEPT !.rule = transName]
    IN IF transName \notin DOMAIN transformations
       THEN Only({[fs |-> fs1, err |-> r.err, log |-> r.log] : r \in {formatErr(fe1, log)}})
       ELSE LET transformation == transformations[transName] IN
            IF ~hasValue(fs1.value.kind, fs1.value) /\ ~transformation.runOnNil
            THEN [fs |-> fs1, err |-> NoErr, log |-> log]
            ELSE LET log1 == Append(log, Invocation("trans", transformation.fn, fs1)) IN
                 Only({IF r.err # NoErr THEN [fs |-> fs1, err |-> r.err, log |-> log1]
                       ELSE IF r.value.typ = fs1.value.typ /\ ~Comparable(r.value)
                       THEN [fs |-> fs1, log |-> log1,
                             err |-> Panic("runtime error: comparing uncomparable type")]
                       ELSE IF ~InterfaceEq(r.value, fs1.value)
                       THEN [fs |-> [fs1 EXCEPT !.value = r.value, !.ref = "new"],
                             err |-> NoErr, log |-> log1]
                       ELSE [fs |-> fs1, err |-> NoErr, log |-> log1]
                       : r \in {CallTransformation(transformation.fn, fs1)}})

\* a validation step that invokes the rule whatever the value
applyValidationOnNil(fs, fe, ruleTag, log) ==
    LET cut == Cut(ruleTag, "=")
        rule == cut[1]
        param == cut[2]
        fs1 == [fs EXCEPT !.rule = rule, !.param = param]
        fe1 == [fe EXCEPT !.rule = rule, !.param = rule]
    IN IF rule \notin DOMAIN validations
       THEN LET r == formatErr(fe1, log) IN [fs |-> fs1, err |-> r.err, log |-> r.log]
       ELSE LET validation == validations[rule]
                r == CallValidation(validation.fn, fs1)
                log1 == Append(log, Invocation("val", validation.fn, fs1))
            IN IF r.err # NoErr THEN [fs |-> fs1, err |-> r.err, log |-> log1]
               ELSE IF ~r.valid
               THEN LET f == formatErr(fe1, log1) IN
                    [fs |-> fs1, err |-> f.err, log |-> f.log]
               ELSE [fs |-> fs1, err |-> NoErr, log |-> log1]

\* apply validation rule
applyValidation(fs, fe, ruleTag, log) ==
    Only({
    LET rule == cut[1]
        param == cut[2]
        fs1 == [fs EXCEPT !.rule = rule, !.param = param]
        fe1 == [fe EXCEPT !.rule = rule, !.param = rule]
    IN IF rule \notin DOMAIN validations
       THEN Only({[fs |-> fs1, err |-> r.err, log |-> r.log] : r \in {formatErr(fe1, log)}})
       ELSE LET validation == validations[rule] IN
            IF ~hasValue(fs1.value.kind, fs1.value) /\ ~validation.runOnNil
            THEN [fs |-> fs1, err |-> NoErr, log |-> log]
            ELSE LET log1 == Append(log, Invocation("val", validation.fn, fs1)) IN
                 Only({IF r.err # NoErr THEN [fs |-> fs1, err |-> r.err, log |-> log1]
                       ELSE IF ~r.valid
                       THEN Only({[fs |-> fs1, err |-> f.err, log |-> f.log]
                                  : f \in {formatErr(fe1, log1)}})
                       ELSE [fs |-> fs1, err |-> NoErr, log |-> log1]
                       : r \in {CallValidation(validation.fn, fs1)}})
    : cut \in {Cut(ruleTag, "=")}})

\* no rule is tied to a method
skipForMethodNever(rule, method) == FALSE

\* a rule is tied to a method other than the active one
skipForMethod(rule, method) ==
    \/ method = validate /\ (HasSuffix(rule, <<"_create">>) \/ HasSuffix(rule, <<"_update">>))
    \/ method = create /\ (HasSuffix(rule, <<"_validate">>) \/ HasSuffix(rule, <<"_update">>))
    \/ method = update /\ (HasSuffix(rule, <<"_create">>) \/ HasSuffix(rule, <<"_validate">>))

RECURSIVE applyRulesFrom(_, _, _, _)
\* a chain that does not stop at the first failing rule: it runs the
\* remaining rules on the value and returns the first error at the end
applyRulesNoStop(fs, method, i, log) ==
    IF i > Len(fs.rules) THEN [fs |-> fs, err |-> NoErr, log |-> log]
    ELSE LET rule == fs.rules[i] IN
         IF skipForMethod(rule, method) THEN applyRulesFrom(fs, method, i + 1, log)
         ELSE LET fe == NewFieldError(fs)
                  r == IF HasPrefix(rule, <<"transform", "=">>)
                       THEN applyTransformation(fs, fe, rule, log)
                       ELSE applyValidation(fs, fe, rule, log)
                  rest == applyRulesFrom(r.fs, method, i + 1, r.log)
              IN IF r.err # NoErr THEN [rest EXCEPT !.err = r.err] ELSE rest

\* the loop of applyRules, from rule i of fs.rules on
applyRulesFrom(fs, method, i, log) ==
    IF i > Len(fs.rules) THEN [fs |-> fs, err |-> NoErr, log |-> log]
    ELSE LET rule == fs.rules[i] IN
         IF skipForMethod(rule, method) THEN applyRulesFrom(fs, method, i + 1, log)
         ELSE Only({IF r.err # NoErr THEN r
                    ELSE applyRulesFrom(r.fs, method, i + 1, r.log)
                    : r \in {IF HasPrefix(rule, <<"transform", "=">>)
                              THEN applyTransformation(fs, NewFieldError(fs), rule, log)
                              ELSE applyValidation(fs, NewFieldError(fs), rule, log)}})

\* validate field based on rules
applyRules(fs, method, log) == applyRulesFrom(fs, method, 1, log)

----------------------------------------------------------------------------
(* Record types: the fields in declaration order, with their annotations *)

Tag(tokens) == Join(tokens, ",")

\* types.Field(i): the declared name and the firevault tag of each field
StructFields(typ) ==
    CASE typ = "User" ->
           <<[name |-> <<"Name">>,
              tag |-> Tag(<<<<"name">>, <<"required">>, <<"min", "=", "3">>>>)],
             [name |-> <<"Age">>,
              tag |-> Tag(<<<<"age">>, <<"min", "=", "18">>>>)]>>
      [] typ = "Range" ->
           <<[name |-> <<"S">>,
              tag |-> Tag(<<<<"s">>, <<" ", "min", "=", "3">>, <<"max", "=", "5">>>>)]>>
      [] typ = "Trans" ->
           <<[name |-> <<"Code">>,
              tag |-> Tag(<<<<"code">>, <<"min", "=", "3">>,
                            <<"transform", "=", "trim_space">>, <<"max", "=", "2">>,
                            <<"transform", "=", "uppercase">>>>)],
             [name |-> <<"Num">>,
              tag |-> Tag(<<<<"num">>, <<"omitempty">>, <<"transform", "=", "uppercase">>,
                            <<"custom">>>>)]>>
      [] typ = "Meth" ->
           <<[name |-> <<"R">>,
              tag |-> Tag(<<<<"r">>, <<"required", "_update">>,
                            <<"transform", "=", "fix", "_create">>>>)],
             [name |-> <<"O">>,
              tag |-> Tag(<<<<>>, <<"omitempty", "_create">>, <<"required", "_update">>>>)]>>
      [] typ = "Order" ->
           <<[name |-> <<"Address">>, tag |-> Tag(<<<<"address">>>>)],
             [name |-> <<"Note">>, tag |-> <<>>]>>
      [] typ = "Post" ->
           <<[name |-> <<"Tags">>,
              tag |-> Tag(<<<<"tags">>, <<"min", "=", "1">>, <<"max", "=", "5">>,
                            <<"dive">>>>)]>>
      [] typ = "Cart" ->
           <<[name |-> <<"Items">>,
              tag |-> Tag(<<<<"items">>, <<"min", "=", "1">>, <<"max", "=", "2">>,
                            <<"dive">>>>)]>>
      [] typ = "Bag" ->
           <<[name |-> <<"Tags">>,
              tag |-> Tag(<<<<"tags">>, <<"transform", "=", "uppercase">>>>)]>>
      [] typ = "Sfx" ->
           <<[name |-> <<"V">>,
              tag |-> Tag(<<<<"v">>, <<"custom", "=", "on", "_update">>>>)]>>
      [] typ = "Ship" ->
           <<[name |-> <<"Order">>, tag |-> Tag(<<<<"order">>>>)]>>
      [] typ = "Opt" ->
           <<[name |-> <<"P">>,
              tag |-> Tag(<<<<"p">>, <<"transform", "=", "uppercase">>>>)]>>
      [] typ = "Address" ->
           <<[name |-> <<"Street">>, tag |-> Tag(<<<<"street">>, <<"required">>>>)],
             [name |-> <<"City">>, tag |-> <<"-">>]>>

\* time.Time is a struct the engine does not descend into
TimeType == "time.Time"

----------------------------------------------------------------------------
(* Traversal *)

\* dataMap[k] = v: the pairs of a Go map, in insertion order
DataMapSet(dataMap, k, v) ==
    IF \E i \in 1..Len(dataMap) : dataMap[i].k = k
    THEN [i \in 1..Len(dataMap) |-> IF dataMap[i].k = k THEN [k |-> k, v |-> v] ELSE dataMap[i]]
    ELSE Append(dataMap, [k |-> k, v |-> v])

\* reflect.Value.Set(x) on field i of rs: "" when it succeeds, else the panic
SetPanic(rs, fieldValue, x) ==
    IF ~rs.addr THEN "reflect.Value.Set using unaddressable value"
    ELSE IF x.typ # fieldValue.typ THEN "value is not assignable to type"
    ELSE ""

RECURSIVE validateFieldsFrom(_, _, _, _, _, _, _)
RECURSIVE processFieldOf(_, _, _, _, _, _, _)
RECURSIVE processFinalValue(_, _, _, _)
RECURSIVE processSliceFrom(_, _, _, _, _, _)

\* fmt.Sprintf("[%d]", i)
IndexSym(i) == <<"[0]", "[1]", "[2]", "[3]", "[4]", "[5]">>[i + 1]

\* the loop of processSliceValue, from element i (counted from 1) on:
\* newSlice holds the processed elements, after the elements as the nested
\* calls left them
processSliceFrom(fs, i, newSlice, after, opts, log) ==
    IF i > Len(fs.value.f)
    THEN [value |-> Value("slice", "[]interface {}", <<>>, 0, newSlice, <<>>),
          err |-> NoErr, log |-> log, after |-> [fs.value EXCEPT !.f = after]]
    ELSE IF fs.value.f[i].kind = "ptr" /\ IsNil(fs.value.f[i])
    THEN [value |-> NilV, err |-> Panic("call of reflect.Value.Type on zero Value"),
          log |-> log, after |-> [fs.value EXCEPT !.f = after]]
    ELSE Only({IF r.err # NoErr
               THEN [value |-> NilV, err |-> r.err, log |-> r.log,
                     after |-> [fs.value EXCEPT !.f = [after EXCEPT ![i] =
                                   IF @.kind = "ptr" THEN PtrV(r.after) ELSE r.after]]]
               ELSE processSliceFrom(fs, i + 1, Append(newSlice, r.value),
                                     [after EXCEPT ![i] =
                                         IF @.kind = "ptr" THEN PtrV(r.after) ELSE r.after],
                                     opts, r.log)
               : r \in {processFinalValue(
                           [fs EXCEPT !.field = <<IndexSym(i - 1)>>,
                                      !.structField = <<IndexSym(i - 1)>>,
                                      !.path = fs.path \o <<IndexSym(i - 1)>>,
                                      !.structPath = fs.structPath \o <<IndexSym(i - 1)>>,
                                      !.value = IF fs.value.f[i].kind = "ptr"
                                                THEN fs.value.f[i].f[1] ELSE fs.value.f[i],
                                      !.rule = <<>>, !.param = <<>>, !.dive = FALSE,
                                      !.rules = <<>>],
                           TRUE, opts, log)}})

\* process slice/array's nested fields
processSliceValue(fs, opts, log) == processSliceFrom(fs, 1, <<>>, fs.value.f, opts, log)

\* get final field value based on field's type
\* (fs.value of a struct field is again a record to validate; `addr` tells
\* whether that value is addressable, `after` is the value once the nested
\* call has written back into it)
processFinalValue(fs, addr, opts, log) ==
    IF fs.value.kind = "struct" /\ fs.value.typ # TimeType
    THEN Only({[value |-> r.dataMap, err |-> r.err, log |-> r.log, after |-> r.rs.val]
               : r \in {validateFieldsFrom([typ |-> fs.value.typ, val |-> fs.value,
                                            addr |-> addr],
                                           1, <<>>, fs.path, fs.structPath, opts, log)}})
    ELSE IF fs.value.kind = "slice" /\ fs.dive
    THEN processSliceValue(fs, opts, log)
    ELSE [value |-> fs.value, err |-> NoErr, log |-> log, after |-> fs.value]

\* process individual field validations and transformations
\* write-back of every processed field, requested or not
setOriginalAlways(opts, fs) == TRUE

\* write-back of every changed value, requested or not
setOriginalIfChanged(opts, fs) == fs.ref # "field"

\* check if original struct value should be changed: the option is set and
\* the scope's value is no longer the reflected field itself
setOriginal(opts, fs) == opts.modifyOriginal /\ fs.ref # "field"

processFieldOf(rs, fieldIndex, ft, path, structPath, opts, log) ==
    LET fieldValue == rs.val.f[fieldIndex]
        skipped == [name |-> <<>>, value |-> NilV, err |-> NoErr, log |-> log, rs |-> rs]
    IN
    Only({
    IF tag = <<>> \/ tag = <<"-">> THEN skipped
    ELSE
    Only({
    LET field == IF rules[1] # <<>> THEN rules[1] ELSE fieldType.name
        fs0 == [field |-> field, structField |-> fieldType.name,
                path |-> getFieldPath(path, field),
                structPath |-> getFieldPath(structPath, fieldType.name),
                value |-> fieldValue, rule |-> <<>>, param |-> <<>>,
                dive |-> FALSE, rules |-> <<>>, ref |-> "field"]
        typeErr == validateFieldType(fs0.value.kind, fs0.path)
    IN
    IF typeErr # NoErr THEN [skipped EXCEPT !.err = typeErr]
    ELSE IF shouldSkipField(fs0, rules, opts) THEN skipped
    ELSE
    Only({
    Only({
    IF applied.err # NoErr THEN [skipped EXCEPT !.err = applied.err, !.log = applied.log]
    ELSE
    LET fs3 == applied.fs
        doSet == ~opts.skipValidation /\ setOriginal(opts, fs3)
        panic == IF doSet THEN SetPanic(rs, fieldValue, fs3.value) ELSE ""
    IN
    IF panic # "" THEN [skipped EXCEPT !.err = Panic(panic), !.log = applied.log]
    ELSE
    LET rs1 == IF doSet THEN [rs EXCEPT !.val.f[fieldIndex] = fs3.value] ELSE rs
        \* the value the nested call works on shares memory with the record
        \* when it is the field itself or the target of its pointer
        addr == (fs3.ref = "field" /\ rs.addr) \/ fs3.ref = "elem"
    IN
    Only({
    LET rs2 == IF fs3.ref = "field" THEN [rs1 EXCEPT !.val.f[fieldIndex] = final.after]
               ELSE IF fs3.ref = "elem"
               THEN [rs1 EXCEPT !.val.f[fieldIndex] = PtrV(final.after)]
               ELSE rs1
    IN
    IF final.err # NoErr
    THEN [name |-> <<>>, value |-> NilV, err |-> final.err, log |-> final.log, rs |-> rs2]
    ELSE [name |-> fs3.field, value |-> final.value, err |-> NoErr,
          log |-> final.log, rs |-> rs2]
    \* get the final value to be added to the data map
    : final \in {processFinalValue(applied.fs, addr, opts, applied.log)}})
    \* apply rules (both transformations and validations) unless skipped using options
    : applied \in {IF ~opts.skipValidation THEN applyRules(fs2, opts.method, log)
                   ELSE [fs |-> fs2, err |-> NoErr, log |-> log]}})
    \* remove name, dive and omitempty from rules; get pointer value, only if it's not nil
    : fs2 \in {LET fs1 == [fs0 EXCEPT !.dive = Contains(rules, <<"dive">>),
                                      !.rules = cleanRules(rules)]
               IN IF fs1.value.kind = "ptr" /\ ~IsNil(fs1.value)
                  THEN [fs1 EXCEPT !.value = fs1.value.f[1], !.ref = "elem"]
                  ELSE fs1}})
    \* parse tag into separate rules
    : rules \in {parseTag(tag)}})
    : <<fieldType, tag>> \in {<<ft, ft.tag>>}})

\* processField: the field's name and tag are read from the record's type
processField(rs, fieldIndex, path, structPath, opts, log) ==
    processFieldOf(rs, fieldIndex, StructFields(rs.typ)[fieldIndex], path, structPath, opts, log)

\* a loop that does not stop at the first failing field: it goes through the
\* remaining fields and returns the first error at the end
validateFieldsNoStop(rs, i, dataMap, path, structPath, opts, log) ==
    IF i > Len(rs.val.f) THEN [dataMap |-> MapV(dataMap), err |-> NoErr, log |-> log, rs |-> rs]
    ELSE LET r == processField(rs, i, path, structPath, opts, log)
             rest == validateFieldsFrom(r.rs, i + 1,
                                        IF r.name # <<>> /\ r.value # NilV
                                        THEN DataMapSet(dataMap, r.name, r.value) ELSE dataMap,
                                        path, structPath, opts, r.log)
         IN IF r.err # NoErr THEN [rest EXCEPT !.dataMap = NilV, !.err = r.err] ELSE rest

\* the loop of validateFields, from field i on
validateFieldsFrom(rs, i, dataMap, path, structPath, opts, log) ==
    IF i > Len(rs.val.f) THEN [dataMap |-> MapV(dataMap), err |-> NoErr, log |-> log, rs |-> rs]
    ELSE Only({IF r.err # NoErr
               THEN [dataMap |-> NilV, err |-> r.err, log |-> r.log, rs |-> r.rs]
               ELSE validateFieldsFrom(r.rs, i + 1,
                                       IF r.name # <<>> /\ r.value # NilV
                                       THEN DataMapSet(dataMap, r.name, r.value) ELSE dataMap,
                                       path, structPath, opts, r.log)
               : r \in {processField(rs, i, path, structPath, opts, log)}})

\* loop through struct's fields and validate based on provided tags and options
validateFields(rs, path, structPath, opts, log) ==
    validateFieldsFrom(rs, 1, <<>>, path, structPath, opts, log)

\* validate(ctx, data, opts): data must be a pointer to a struct
validateCall(data, opts) ==
    IF data.kind # "ptr"
    THEN [dataMap |-> NilV, err |-> ErrorsNew("data must be a pointer to a struct"),
          log |-> <<>>, data |-> data]
    ELSE IF IsNil(data) \/ data.f[1].kind # "struct"
    THEN [dataMap |-> NilV, err |-> ErrorsNew("data must be a pointer to a struct"),
          log |-> <<>>, data |-> data]
    ELSE Only({[dataMap |-> r.dataMap, err |-> r.err, log |-> r.log, data |-> PtrV(r.rs.val)]
               : r \in {validateFields([typ |-> data.f[1].typ, val |-> data.f[1],
                                        addr |-> TRUE],
                                       <<>>, <<>>, opts, <<>>)}})

----------------------------------------------------------------------------
(* The metadata cache: parsed struct data per record type *)

\* no entry
NoMeta == [name |-> "", fields |-> <<>>]

\* a store that forgets every other type
structCacheSetOnly(sc, structType, structData) ==
    [t \in DOMAIN sc |-> IF t = structType THEN structData ELSE NoMeta]

\* a store that overwrites the entry of every type already cached
structCacheSetAll(sc, structType, structData) ==
    [t \in DOMAIN sc |-> IF t = structType \/ sc[t] # NoMeta THEN structData ELSE sc[t]]

\* structCache.set: sync.Map.Store(structType, structData)
structCacheSet(sc, structType, structData) == [sc EXCEPT ![structType] = structData]

\* a load that returns whatever entry the cache holds
structCacheGetAny(sc, structType) ==
    IF \E t \in DOMAIN sc : sc[t] # NoMeta
    THEN [val |-> sc[CHOOSE t \in DOMAIN sc : sc[t] # NoMeta], found |-> TRUE]
    ELSE [val |-> NoMeta, found |-> FALSE]

\* structCache.get: sync.Map.Load(structType)
structCacheGet(sc, structType) ==
    IF sc[structType] # NoMeta THEN [val |-> sc[structType], found |-> TRUE]
    ELSE [val |-> NoMeta, found |-> FALSE]

\* the metadata built on a miss: the type's name and, for each declared
\* field in declaration order, its index, its name and its annotation
buildMetadata(typ) ==
    [name |-> typ,
     fields |-> [i \in 1..Len(StructFields(typ)) |->
                    [idx |-> i, structField |-> StructFields(typ)[i].name,
                     tag |-> StructFields(typ)[i].tag]]]

RECURSIVE validateMetaFrom(_, _, _, _, _, _)
\* the traversal of a record along its metadata, from entry k on
validateMetaFrom(meta, rs, k, dataMap, opts, log) ==
    IF k > Len(meta.fields)
    THEN [dataMap |-> MapV(dataMap), err |-> NoErr, log |-> log, rs |-> rs]
    ELSE Only({IF r.err # NoErr
               THEN [dataMap |-> NilV, err |-> r.err, log |-> r.log, rs |-> r.rs]
               ELSE validateMetaFrom(meta, r.rs, k + 1,
                                     IF r.name # <<>> /\ r.value # NilV
                                     THEN DataMapSet(dataMap, r.name, r.value) ELSE dataMap,
                                     opts, r.log)
               : r \in {processFieldOf(rs, meta.fields[k].idx,
                                       [name |-> meta.fields[k].structField,
                                        tag |-> meta.fields[k].tag],
                                       <<>>, <<>>, opts, log)}})

\* validate on a pointer to a record, with the metadata of its type in hand
validateCached(meta, data, opts) ==
    Only({[dataMap |-> r.dataMap, err |-> r.err, log |-> r.log, data |-> PtrV(r.rs.val)]
          : r \in {validateMetaFrom(meta, [typ |-> data.f[1].typ, val |-> data.f[1],
                                            addr |-> TRUE],
                                     1, <<>>, opts, <<>>)}})

----------------------------------------------------------------------------
(* Inputs *)

\* the string of n letters "a"
Letters(n) == [i \in 1..n |-> "a"]

\* the records validate is called on
Records ==
    {StructV("User", <<StrV(name), IntV(age)>>) :
        name \in {Letters(0), Letters(2), Letters(3)}, age \in {0, 17, 30}}
    \cup {StructV("Range", <<StrV(Letters(n))>>) : n \in 0..MaxLen}
    \cup {StructV("Trans", <<StrV(code), IntV(num)>>) :
        code \in {<<>>, <<" ", "a", " ">>, <<"a", "a", "a">>},
        num \in {0, 7}}
    \cup {StructV("Meth", <<StrV(r), StrV(o)>>) : r \in {<<>>, <<"a">>}, o \in {<<>>, <<"a">>}}
    \cup {StructV("Order", <<StructV("Address", <<StrV(street), StrV(<<"a">>)>>), StrV(<<"a">>)>>) :
        street \in {<<>>, <<"a">>}}
    \cup {StructV("Opt", <<p>>) : p \in {PtrV(StrV(<<"a">>)), NilPtr("string")}}
    \cup {StructV("Post", <<SliceV("string", [i \in 1..n |-> StrV(<<"a">>)])>>) : n \in {1, 6}}
    \cup {StructV("Cart", <<SliceV("Address", items)>>) :
             items \in {<<StructV("Address", <<StrV(<<"a">>), StrV(<<"a">>)>>)>>,
                        <<StructV("Address", <<StrV(<<"a">>), StrV(<<"a">>)>>),
                          StructV("Address", <<StrV(<<>>), StrV(<<"a">>)>>)>>,
                        <<StructV("Address", <<StrV(<<>>), StrV(<<"a">>)>>),
                          StructV("Address", <<StrV(<<"a">>), StrV(<<"a">>)>>),
                          StructV("Address", <<StrV(<<"a">>), StrV(<<"a">>)>>)>>}}
    \cup {StructV("Bag", <<SliceV("string", <<StrV(<<"a">>)>>)>>)}
    \cup {StructV("Sfx", <<StrV(<<"a">>)>>)}
    \cup {StructV("Ship", <<StructV("Order", <<StructV("Address", <<StrV(<<>>), StrV(<<"a">>)>>),
                                              StrV(<<"a">>)>>)>>)}

\* what callers pass as data: pointers to records, a nil pointer, a record
\* passed by value
DataArgs ==
    {PtrV(r) : r \in Records} \cup {NilPtr("User"), StructV("Range", <<StrV(<<>>)>>)}

\* validationOpts{method, skipValidation, emptyFieldsAllowed, modifyOriginal};
\* skipValFields is what the collection passes along with them and the
\* validator has no field for
validationOpts(method, skipValidation, emptyFieldsAllowed, modifyOriginal) ==
    [method |-> method, skipValidation |-> skipValidation, skipValFields |-> <<>>,
     emptyFieldsAllowed |-> emptyFieldsAllowed, modifyOriginal |-> modifyOriginal]

\* the options of a call made with Options.SkipValidationFields(fields...):
\* skipValidation is set, and the paths are kept when there are any
skipValidationFields(method, fields) ==
    [validationOpts(method, TRUE, <<>>, FALSE) EXCEPT !.skipValFields = fields]

\* the calls made with validation suppressed for the path name
SkipFieldsData == {PtrV(StructV("User", <<StrV(Letters(n)), IntV(age)>>)) :
                      n \in {2, 3}, age \in {17, 30}}
SkipFieldsOpts == {skipValidationFields(validate, <<<<"name">>>>)}

\* the options callers pass: every method, alone and with one option set
OptsArgs ==
    UNION {{validationOpts(m, FALSE, <<>>, FALSE), validationOpts(m, TRUE, <<>>, FALSE),
            validationOpts(m, FALSE, <<<<"O">>>>, FALSE), validationOpts(m, FALSE, <<>>, TRUE)} :
           m \in Methods}

\* names callers register validations under
ValidationNames == {<<"custom">>, <<"required">>, <<>>, <<"dive">>, <<"a", ".", "b">>}

\* names callers register transformations under
TransformationNames == {<<"uppercase">>, <<"fix", "_create">>, <<>>, <<"omitempty", "_update">>}

----------------------------------------------------------------------------
(* Options values (options.go) *)

MaxCalls == 3

\* a string slice: its backing array (0 when it has none), length, capacity
NilSlice == [arr |-> 0, len |-> 0, cap |-> 0]

\* []string{}: no element, no backing array to write to
EmptySlice == [arr |-> 0, len |-> 0, cap |-> 0]

\* the elements of slice s in heap h
Elems(h, s) == IF s.len = 0 THEN <<>> ELSE SubSeq(h[s.arr], 1, s.len)

\* append(s, fields...): the elements are written after the last one when
\* the capacity allows it, in the backing array s shares with every slice
\* made from it; otherwise the elements are copied to a new array of
\* twice the capacity, or of the size needed when that is more
append(h, s, fields) ==
    IF fields = <<>> THEN [slice |-> s, heap |-> h]
    ELSE IF s.len + Len(fields) <= s.cap
    THEN [slice |-> [s EXCEPT !.len = s.len + Len(fields)],
          heap |-> [h EXCEPT ![s.arr] =
                       [k \in 1..s.cap |->
                           IF k \in (s.len + 1)..(s.len + Len(fields))
                           THEN fields[k - s.len] ELSE @[k]]]]
    ELSE LET n == s.len + Len(fields)
             newcap == IF n > 2 * s.cap THEN n ELSE 2 * s.cap
         IN [slice |-> [arr |-> Len(h) + 1, len |-> n, cap |-> newcap],
             heap |-> Append(h, [k \in 1..newcap |->
                                    IF k <= s.len THEN h[s.arr][k]
                                    ELSE IF k <= n THEN fields[k - s.len] ELSE ""])]

\* Options{}
NewOptions ==
    [skipValidation |-> FALSE, skipValFields |-> NilSlice, skipValRules |-> NilSlice,
     allowEmptyFields |-> NilSlice, modifyOriginal |-> FALSE, method |-> "", id |-> "",
     disableMerge |-> FALSE, mergeFields |-> NilSlice]

\* a method's result: the Options value returned and the heap it leaves
SkipValidationFields(h, o, fields) ==
    IF Len(fields) > 0
    THEN Only({[o |-> [o EXCEPT !.skipValidation = TRUE, !.skipValFields = r.slice],
                heap |-> r.heap] : r \in {append(h, o.skipValFields, fields)}})
    ELSE [o |-> [o EXCEPT !.skipValidation = TRUE, !.skipValFields = EmptySlice], heap |-> h]

SkipValidationRules(h, o, rules) ==
    IF Len(rules) > 0
    THEN Only({[o |-> [o EXCEPT !.skipValidation = TRUE, !.skipValRules = r.slice],
                heap |-> r.heap] : r \in {append(h, o.skipValRules, rules)}})
    ELSE [o |-> [o EXCEPT !.skipValidation = TRUE, !.skipValRules = EmptySlice], heap |-> h]

AllowEmptyFields(h, o, fields) ==
    Only({[o |-> [o EXCEPT !.allowEmptyFields = r.slice], heap |-> r.heap]
          : r \in {append(h, o.allowEmptyFields, fields)}})

ReplaceAll(h, o, fields) ==
    [o |-> [o EXCEPT !.disableMerge = TRUE, !.mergeFields = EmptySlice], heap |-> h]

ReplaceFields(h, o, fields) ==
    Only({[o |-> [o EXCEPT !.mergeFields = r.slice, !.disableMerge = FALSE], heap |-> r.heap]
          : r \in {append(h, o.mergeFields, fields)}})

\* the calls a caller makes: method and arguments
OptionCalls ==
    {[op |-> op, args |-> <<f>>] :
        op \in {"AllowEmptyFields", "ReplaceFields"}, f \in {"a", "b"}}
    \cup {[op |-> op, args |-> args] :
             op \in {"SkipValidationFields", "SkipValidationRules"}, args \in {<<>>, <<"a">>}}
    \cup {[op |-> "ReplaceAll", args |-> <<>>]}

\* the method call c on the Options value o
CallOption(h, o, c) ==
    CASE c.op = "SkipValidationFields" -> SkipValidationFields(h, o, c.args)
      [] c.op = "SkipValidationRules" -> SkipValidationRules(h, o, c.args)
      [] c.op = "AllowEmptyFields" -> AllowEmptyFields(h, o, c.args)
      [] c.op = "ReplaceAll" -> ReplaceAll(h, o, c.args)
      [] c.op = "ReplaceFields" -> ReplaceFields(h, o, c.args)

\* what an Options value reads as: its flags and the elements of its lists
Reading(h, o) ==
    [skipValidation |-> o.skipValidation, skipValFields |-> Elems(h, o.skipValFields),
     skipValRules |-> Elems(h, o.skipValRules),
     allowEmptyFields |-> Elems(h, o.allowEmptyFields),
     disableMerge |-> o.disableMerge, mergeFields |-> Elems(h, o.mergeFields)]

\* the variables a caller holds: o (1), and o1 (2), o2 (3) made from o or o1
Slots == 1..3

\* a held value: the value, the calls that made it, and what it read as
\* when it was returned
Held(o, made, h) == [held |-> TRUE, val |-> o, made |-> made, was |-> Reading(h, o)]
NotHeld == [held |-> FALSE, val |-> NewOptions, made |-> <<>>, was |-> Reading(<<>>, NewOptions)]

----------------------------------------------------------------------------
(* Find and Count (collection.go) *)

MaxIDs == 2

\* document IDs, in the order the store lists them, and field values
DocIDs == 1..3
DocValues == 1..2

\* a query: the IDs of its ID clause, in the order given, and the value its
\* filter asks of field v (0 when it has no filter)
Queries ==
    {[ids |-> ids, filter |-> 0] :
        ids \in UNION {[1..n -> DocIDs] : n \in 1..MaxIDs}}
    \cup {[ids |-> <<>>, filter |-> f] : f \in {0} \cup DocValues}

RECURSIVE fetchDocsFrom(_, _, _)
\* the loop of fetchDocsByID over the snapshots GetAll returns, one for each
\* ID given: a snapshot of a document that does not exist is passed over
fetchDocsFrom(st, ids, i) ==
    IF i > Len(ids) THEN <<>>
    ELSE IF st[ids[i]] = 0 THEN fetchDocsFrom(st, ids, i + 1)
    ELSE <<[id |-> ids[i], v |-> st[ids[i]]]>> \o fetchDocsFrom(st, ids, i + 1)

fetchDocsByID(st, ids) == fetchDocsFrom(st, ids, 1)

RECURSIVE matching(_, _, _)
\* the documents of the store the built query matches, from ID i on
matching(st, query, i) ==
    IF i > Cardinality(DocIDs) THEN <<>>
    ELSE IF st[i] # 0 /\ (query.filter = 0 \/ st[i] = query.filter)
    THEN <<[id |-> i, v |-> st[i]]>> \o matching(st, query, i + 1)
    ELSE matching(st, query, i + 1)

fetchDocsByQuery(st, query) == matching(st, query, 1)

\* CollectionRef.Find
Find(st, query) ==
    IF Len(query.ids) > 0 THEN fetchDocsByID(st, query.ids)
    ELSE fetchDocsByQuery(st, query)

\* CollectionRef.Count: the number of IDs given, or the count aggregation
\* of the built query
Count(st, query) ==
    IF Len(query.ids) > 0 THEN Len(query.ids)
    ELSE Len(matching(st, query, 1))

\* no query in progress
NoAnswer == [op |-> "none", query |-> [ids |-> <<>>, filter |-> 0], docs |-> <<>>, count |-> 0]

----------------------------------------------------------------------------
(* Record types that contain themselves *)

MaxDepth == 4

\* type Node struct { Next *Node; Kids []*Node }, both fields annotated, Kids
\* with dive: a record value is a set of Node records, each holding the
\* record its Next points to (0 when nil) and the records its Kids hold
Nodes == 1..2
Graphs == [Nodes -> [next : {0} \cup Nodes, kids : {<<>>} \cup {<<n>> : n \in Nodes}]]

\* the record a frame descends into from its current field: field 1 is
\* Next, field 2 is Kids; 0 when the field holds no record
Below(g, frame) ==
    IF frame.field = 1 THEN g[frame.node].next
    ELSE IF frame.field = 2 /\ g[frame.node].kids # <<>> THEN g[frame.node].kids[1]
    ELSE 0

\* a frame of validateFields on a record: the field its loop is at
Frame(node, field) == [node |-> node, field |-> field]

----------------------------------------------------------------------------
(* The engine as a state machine: one caller, one call at a time *)

Idle == [op |-> "none"]

\* the record types validated concurrently, and the callers
CacheTypes == {"User", "Trans"}
Callers == 1..NCallers

\* what a call returns, before it has returned
NoResult == [dataMap |-> NilV, err |-> NoErr, log |-> <<>>, data |-> NilV]

\* a caller between two calls
NoCall ==
    [pc |-> "idle", data |-> NilV, opts |-> validationOpts(validate, FALSE, <<>>, FALSE),
     missed |-> FALSE, meta |-> NoMeta, res |-> NoResult]

Init ==
    /\ validations = newValidations
    /\ transformations = newTransformations
    /\ errFormatters = <<>>
    /\ nRegs = 0
    /\ last = Idle
    /\ cache = [t \in CacheTypes |-> NoMeta]
    /\ calls = [c \in Callers |-> NoCall]
    /\ heap = <<>>
    /\ options = [s \in Slots |-> IF s = 1 THEN Held(NewOptions, <<>>, heap) ELSE NotHeld]
    /\ store = [id \in DocIDs |-> 0]
    /\ answer = NoAnswer
    /\ graph = [n \in Nodes |-> [next |-> 0, kids |-> <<>>]]
    /\ walk = [pc |-> "idle", stack |-> <<>>]

\* Connection.RegisterValidation -> validator.registerValidation(name, fn, false, runOnNil)
RegisterValidation(name, validation, runOnNil) ==
    LET err == registerValidationErr(name, validation, FALSE) IN
    /\ last.op = "none"
    /\ nRegs < MaxRegs
    /\ IF err = ""
       THEN /\ validations' = MapSet(validations, name, [fn |-> validation, runOnNil |-> runOnNil])
            /\ nRegs' = nRegs + 1
       ELSE UNCHANGED <<validations, nRegs>>
    /\ last' = [op |-> "registerValidation", name |-> name, fn |-> validation,
                runOnNil |-> runOnNil, err |-> err]
    /\ UNCHANGED <<transformations, errFormatters, cache, calls, elsewhere>>

\* Connection.RegisterTransformation -> validator.registerTransformation(name, fn, false, runOnNil)
RegisterTransformation(name, transformation, runOnNil) ==
    LET err == registerTransformationErr(name, transformation, FALSE) IN
    /\ last.op = "none"
    /\ nRegs < MaxRegs
    /\ IF err = ""
       THEN /\ transformations' =
                  MapSet(transformations, name, [fn |-> transformation, runOnNil |-> runOnNil])
            /\ nRegs' = nRegs + 1
       ELSE UNCHANGED <<transformations, nRegs>>
    /\ last' = [op |-> "registerTransformation", name |-> name, fn |-> transformation,
                runOnNil |-> runOnNil, err |-> err]
    /\ UNCHANGED <<validations, errFormatters, cache, calls, elsewhere>>

\* validator.registerErrorFormatter(errFormatter)
RegisterErrorFormatter(errFormatter) ==
    LET err == IF errFormatter = NilFn THEN "error formatter function cannot be empty" ELSE "" IN
    /\ last.op = "none"
    /\ nRegs < MaxRegs
    /\ IF err = ""
       THEN /\ errFormatters' = Append(errFormatters, errFormatter)
            /\ nRegs' = nRegs + 1
       ELSE UNCHANGED <<errFormatters, nRegs>>
    /\ last' = [op |-> "registerErrorFormatter", fn |-> errFormatter, err |-> err]
    /\ UNCHANGED <<validations, transformations, cache, calls, elsewhere>>

\* validator.validate(ctx, data, opts)
Validate(data, opts) ==
    /\ last.op = "none"
    /\ \E r \in {validateCall(data, opts)} :
          last' = [op |-> "validate", data |-> data, opts |-> opts, dataMap |-> r.dataMap,
                   err |-> r.err, log |-> r.log, after |-> r.data]
    /\ UNCHANGED <<validations, transformations, errFormatters, nRegs, cache, calls, elsewhere>>

\* the caller takes the result; the engine is ready for the next call
Return ==
    /\ last.op # "none"
    /\ last' = Idle
    /\ UNCHANGED <<validations, transformations, errFormatters, nRegs, cache, calls, elsewhere>>

Next ==
    \/ \E name \in ValidationNames, fn \in UserValidations \cup {NilFn}, runOnNil \in BOOLEAN :
          RegisterValidation(name, fn, runOnNil)
    \/ \E name \in TransformationNames, fn \in UserTransformations \cup {NilFn},
          runOnNil \in BOOLEAN :
          RegisterTransformation(name, fn, runOnNil)
    \/ \E f \in Formatters \cup {NilFn} : RegisterErrorFormatter(f)
    \/ \E data \in DataArgs, opts \in OptsArgs : Validate(data, opts)
    \/ \E data \in SkipFieldsData, opts \in SkipFieldsOpts : Validate(data, opts)
    \/ Return

Spec == Init /\ [][Next]_vars

----------------------------------------------------------------------------
(* Concurrent validate calls on one engine, registrations done: each call
   is a sequence of steps, interleaved with the steps of the other calls *)

\* the records and options concurrent callers pass; each caller holds a
\* record instance of its own
CacheDataArgs ==
    {PtrV(StructV("User", <<StrV(Letters(n)), IntV(30)>>)) : n \in 2..3}
    \cup {PtrV(StructV("Trans", <<StrV(<<" ", "a", " ">>), IntV(0)>>))}
CacheOptsArgs ==
    {validationOpts(validate, FALSE, <<>>, modifyOriginal) : modifyOriginal \in BOOLEAN}

TypeOf(c) == calls[c].data.f[1].typ

\* a caller enters validate
CacheCall(c, data, opts) ==
    /\ calls[c].pc = "idle"
    /\ calls' = [calls EXCEPT ![c] = [NoCall EXCEPT !.pc = "get", !.data = data,
                                                    !.opts = opts]]
    /\ UNCHANGED <<validations, transformations, errFormatters, nRegs, last, cache, elsewhere>>

\* it looks its record type up in the cache
CacheGet(c) ==
    /\ calls[c].pc = "get"
    /\ \E r \in {structCacheGet(cache, TypeOf(c))} :
          calls' = [calls EXCEPT ![c] = IF r.found
                                        THEN [@ EXCEPT !.pc = "run", !.meta = r.val]
                                        ELSE [@ EXCEPT !.pc = "build", !.missed = TRUE]]
    /\ UNCHANGED <<validations, transformations, errFormatters, nRegs, last, cache, elsewhere>>

\* on a miss it parses the type's annotations
CacheBuild(c) ==
    /\ calls[c].pc = "build"
    /\ calls' = [calls EXCEPT ![c] = [@ EXCEPT !.pc = "set",
                                                !.meta = buildMetadata(TypeOf(c))]]
    /\ UNCHANGED <<validations, transformations, errFormatters, nRegs, last, cache, elsewhere>>

\* and stores what it built
CacheSet(c) ==
    /\ calls[c].pc = "set"
    /\ cache' = structCacheSet(cache, TypeOf(c), calls[c].meta)
    /\ calls' = [calls EXCEPT ![c] = [@ EXCEPT !.pc = "run"]]
    /\ UNCHANGED <<validations, transformations, errFormatters, nRegs, last, elsewhere>>

\* it walks its record along the metadata it holds
CacheRun(c) ==
    /\ calls[c].pc = "run"
    /\ calls' = [calls EXCEPT ![c] =
                    [@ EXCEPT !.pc = "done",
                              !.res = validateCached(calls[c].meta, calls[c].data,
                                                     calls[c].opts)]]
    /\ UNCHANGED <<validations, transformations, errFormatters, nRegs, last, cache, elsewhere>>

\* the caller takes the result
CacheReturn(c) ==
    /\ calls[c].pc = "done"
    /\ calls' = [calls EXCEPT ![c] = NoCall]
    /\ UNCHANGED <<validations, transformations, errFormatters, nRegs, last, cache, elsewhere>>

CacheNext ==
    \E c \in Callers :
        \/ \E data \in CacheDataArgs, opts \in CacheOptsArgs : CacheCall(c, data, opts)
        \/ CacheGet(c)
        \/ CacheBuild(c)
        \/ CacheSet(c)
        \/ CacheRun(c)
        \/ CacheReturn(c)

CacheSpec == Init /\ [][CacheNext]_vars

----------------------------------------------------------------------------
(* What the caller of validate observes: the call just made, the rule and
   formatter invocations it caused, the result *)

\* validate has just run on a pointer to a record
OnRecord ==
    /\ last.op = "validate"
    /\ last.data.kind = "ptr" /\ ~IsNil(last.data) /\ last.data.f[1].kind = "struct"

\* the record as it was passed
Rec == last.data.f[1]

IsRuleEvent(e) == e.ev # "fmt"
IsFmtEvent(e) == e.ev = "fmt"

\* the invocations of rule implementations, and of formatters, in order
RuleLog == SelectSeq(last.log, IsRuleEvent)
FmtLog == SelectSeq(last.log, IsFmtEvent)

\* a field carries a rule annotation
Annotated(ft) == ft.tag # <<>> /\ ft.tag # <<"-">>

\* the output name of an annotated field
FieldName(ft) == LET rules == parseTag(ft.tag) IN IF rules[1] # <<>> THEN rules[1] ELSE ft.name

\* the value the rules of a field work on: the target of a pointer that is
\* not nil, the field's value otherwise
Deref(value) == IF value.kind = "ptr" /\ ~IsNil(value) THEN value.f[1] ELSE value

RECURSIVE ScopesOf(_, _, _)
\* the annotated fields of a record value, nested records included: path,
\* annotation tokens, value as passed, index of the top-level field
ScopesOf(val, path, top) ==
    UNION {LET ft == StructFields(val.typ)[i]
               p == getFieldPath(path, FieldName(ft))
               t == IF top = 0 THEN i ELSE top
           IN IF ~Annotated(ft) THEN {}
              ELSE {[path |-> p, tag |-> parseTag(ft.tag), value |-> Deref(val.f[i]),
                     top |-> t]}
                   \cup (IF val.f[i].kind = "struct" /\ val.f[i].typ # TimeType
                         THEN ScopesOf(val.f[i], p, t) ELSE {})
                   \cup (IF val.f[i].kind = "slice" /\ Contains(parseTag(ft.tag), <<"dive">>)
                         THEN UNION {IF Deref(val.f[i].f[j]).kind = "struct"
                                     THEN ScopesOf(Deref(val.f[i].f[j]),
                                                   p \o <<IndexSym(j - 1)>>, t)
                                     ELSE {} : j \in 1..Len(val.f[i].f)}
                         ELSE {})
           : i \in 1..Len(val.f)}

Scopes == ScopesOf(Rec, <<>>, 0)
ScopeAt(path) == CHOOSE sc \in Scopes : sc.path = path

\* the rules of a field, without name, dive and omitempty tokens
IsRuleToken(r) == r # <<"dive">> /\ ~HasPrefix(r, <<"omitempty">>)
RulesOf(sc) == SelectSeq(Tail(sc.tag), IsRuleToken)

\* the annotation token an invocation belongs to, and its place in the field's rules
Token(e) ==
    IF e.ev = "trans" THEN <<"transform", "=">> \o e.rule
    ELSE IF e.param # <<>> THEN e.rule \o <<"=">> \o e.param ELSE e.rule
Pos(e) == CHOOSE k \in 1..Len(RulesOf(ScopeAt(e.path))) : RulesOf(ScopeAt(e.path))[k] = Token(e)

\* the rule name of a token
TokenName(r) ==
    IF HasPrefix(r, <<"transform", "=">>) THEN TrimPrefix(r, <<"transform", "=">>)
    ELSE Cut(r, "=")[1]

\* the field scope an invocation saw
EventScope(e) == [value |-> e.value, param |-> e.param, rule |-> e.rule, path |-> e.path]

\* the invocation failed: the validation returned false or an error, the
\* transformation returned an error
Failed(e) ==
    IF e.ev = "val"
    THEN LET r == CallValidation(e.fn, EventScope(e)) IN r.err # NoErr \/ ~r.valid
    ELSE CallTransformation(e.fn, EventScope(e)).err # NoErr

\* the value of the field once the invocation has returned
After(e) ==
    IF e.ev = "trans" THEN CallTransformation(e.fn, EventScope(e)).value ELSE e.value

Max(S) == CHOOSE x \in S : \A y \in S : y <= x

----------------------------------------------------------------------------
(* Fail-fast across fields *)

\* validate on the record of the example: Name "Jo", Age 30, method create
JoCall ==
    /\ last.op = "validate"
    /\ last.data = PtrV(StructV("User", <<StrV(Letters(2)), IntV(30)>>))
    /\ last.opts = validationOpts(create, FALSE, <<>>, FALSE)

\* the error validate returns when invocation e failed
ErrorOf(e, err) ==
    IF e.ev = "val" /\ CallValidation(e.fn, EventScope(e)).err = NoErr
    THEN err.kind \in {"fieldError", "formatted"} /\ err.rule = e.rule /\ err.path = e.path
    ELSE IF e.ev = "val" THEN err = CallValidation(e.fn, EventScope(e)).err
    ELSE err = CallTransformation(e.fn, EventScope(e)).err

\* C1: fields are processed in declaration order; once a rule of one field
\* has failed or errored no rule of a later field is invoked, and validate
\* returns that rule's error with a nil mapping. Name "Jo" under
\* name,required,min=3 with Age 30 under age,min=18 fails on rule min at
\* path name.
C1_FailFastAcrossFields ==
    OnRecord =>
        /\ \A i, j \in 1..Len(RuleLog) : i < j =>
              /\ ScopeAt(RuleLog[i].path).top <= ScopeAt(RuleLog[j].path).top
              /\ Failed(RuleLog[i]) =>
                    ScopeAt(RuleLog[j].path).top = ScopeAt(RuleLog[i].path).top
        /\ \A i \in 1..Len(RuleLog) : Failed(RuleLog[i]) =>
              /\ ErrorOf(RuleLog[i], last.err)
              /\ last.dataMap = NilV
        /\ last.err # NoErr => last.dataMap = NilV
        /\ (JoCall /\ validations = newValidations) =>
              /\ last.err.rule = <<"min">> /\ last.err.path = <<"name">>
              /\ last.dataMap = NilV
              /\ \A i \in 1..Len(RuleLog) : RuleLog[i].path = <<"name">>

\* the example: rule min fails at path name, and age, which has a rule of
\* its own to run, is never looked at
C1_Witness ==
    /\ JoCall
    /\ last.err.kind = "fieldError" /\ last.err.rule = <<"min">> /\ last.err.path = <<"name">>
    /\ last.dataMap = NilV
    /\ Len(RuleLog) = 2 /\ Failed(RuleLog[2])
    /\ \E sc \in Scopes : sc.path = <<"age">> /\ RulesOf(sc) # <<>>

----------------------------------------------------------------------------
(* Rule order within one field *)

\* validate, with validation on, on the record whose field S carries
\* s,min=3,max=5 and holds a string of n symbols
RangeCall(n) ==
    /\ OnRecord
    /\ Rec = StructV("Range", <<StrV(Letters(n))>>)
    /\ ~last.opts.skipValidation

RuleNames == [i \in 1..Len(RuleLog) |-> RuleLog[i].rule]

\* C2: the rules of one field are invoked in the order of the annotation,
\* and the chain stops at the first failure: under min=3,max=5 a value of
\* length 2 fails on min and max is never invoked, while lengths 3, 4 and 5
\* pass both.
C2_RuleOrderWithinField ==
    OnRecord =>
        /\ \A i, j \in 1..Len(RuleLog) :
              (i < j /\ RuleLog[i].path = RuleLog[j].path) =>
                 /\ Pos(RuleLog[i]) < Pos(RuleLog[j])
                 /\ ~Failed(RuleLog[i])
        /\ RangeCall(2) =>
              /\ last.err.kind \in {"fieldError", "formatted"}
              /\ last.err.rule = <<"min">>
              /\ RuleNames = <<<<"min">>>>
        /\ \A n \in 3..5 : RangeCall(n) =>
              /\ last.err = NoErr
              /\ RuleNames = <<<<"min">>, <<"max">>>>
              /\ last.dataMap = MapV(<<[k |-> <<"s">>, v |-> StrV(Letters(n))]>>)

\* length 2 fails on min with max still to come
C2_Witness ==
    /\ RangeCall(2)
    /\ last.err.rule = <<"min">>
    /\ RuleNames = <<<<"min">>>>
    /\ RulesOf(ScopeAt(<<"s">>)) = <<<<"min", "=", "3">>, <<"max", "=", "5">>>>

----------------------------------------------------------------------------
(* Transformations feed the rules after them *)

\* the value validate emitted under a dot-separated path
MapGet(mapv, k) ==
    IF \E i \in 1..Len(mapv.m) : mapv.m[i].k = k
    THEN mapv.m[CHOOSE i \in 1..Len(mapv.m) : mapv.m[i].k = k].v
    ELSE NilV

\* a path component names a key, or a key and the place of an element
IsIndexed(part) == \E k \in 0..5 : part[Len(part)] = IndexSym(k)
KeyOf(part) == IF IsIndexed(part) THEN SubSeq(part, 1, Len(part) - 1) ELSE part
PartGet(mapv, part) ==
    IF ~IsIndexed(part) THEN MapGet(mapv, part)
    ELSE LET elems == MapGet(mapv, KeyOf(part)).f
             k == CHOOSE k \in 0..5 : part[Len(part)] = IndexSym(k)
         IN IF k + 1 \in 1..Len(elems) THEN elems[k + 1] ELSE NilV
RECURSIVE EmittedFrom(_, _, _)
EmittedFrom(mapv, parts, i) ==
    IF i = Len(parts) THEN PartGet(mapv, parts[i])
    ELSE EmittedFrom(PartGet(mapv, parts[i]), parts, i + 1)
Emitted(path) == EmittedFrom(last.dataMap, Split(path, "."), 1)

\* the invocations on the field at a path
EventsAt(path) == {i \in 1..Len(RuleLog) : RuleLog[i].path = path}

\* validate on the record whose field Code carries
\* code,min=3,transform=trim_space,max=2,transform=uppercase and holds " a "
TrimCall ==
    /\ OnRecord
    /\ Rec = StructV("Trans", <<StrV(<<" ", "a", " ">>), IntV(0)>>)
    /\ ~last.opts.skipValidation

\* C3: a validation placed after transform=T sees the value T returned, one
\* placed before it sees the untransformed value, and the value emitted for
\* the field is its value after the last transformation (uppercase turns
\* "a" into "A"); a dived sequence is emitted element by element.
C3_TransformedValueSeen ==
    OnRecord =>
        /\ \A j \in 1..Len(RuleLog) :
              LET prev == {i \in EventsAt(RuleLog[j].path) : i < j} IN
              RuleLog[j].value = IF prev = {} THEN ScopeAt(RuleLog[j].path).value
                                 ELSE After(RuleLog[Max(prev)])
        /\ last.err = NoErr =>
              \A sc \in Scopes :
                 (EventsAt(sc.path) # {} /\ sc.value.kind # "slice") =>
                    Emitted(sc.path) = After(RuleLog[Max(EventsAt(sc.path))])
        /\ (TrimCall /\ transformations = newTransformations) =>
              /\ last.err = NoErr
              /\ [i \in 1..Len(RuleLog) |-> RuleLog[i].value.s] =
                    <<<<" ", "a", " ">>, <<" ", "a", " ">>, <<"a">>, <<"a">>>>
              /\ Emitted(<<"code">>) = StrV(<<"A">>)

\* min=3 passes on the three symbols of " a ", max=2 passes on the one
\* symbol trim_space left, and "A" is emitted
C3_Witness ==
    /\ TrimCall
    /\ last.err = NoErr
    /\ RuleNames = <<<<"min">>, <<"trim_space">>, <<"max">>, <<"uppercase">>>>
    /\ RuleLog[1].value = StrV(<<" ", "a", " ">>)
    /\ RuleLog[3].value = StrV(<<"a">>)
    /\ Emitted(<<"code">>) = StrV(<<"A">>)

----------------------------------------------------------------------------
(* Required *)

\* the token is a rule of the required family that applies under the method
RequiredFor(r, method) == r = <<"required">> \/ r = <<"required", "_" \o method[1]>>

\* validate, with validation on and the rules as registered at
\* construction, on a record whose first field is zero and carries a
\* required-family rule for the active method as its first rule
RequiredCall ==
    /\ OnRecord
    /\ ~last.opts.skipValidation
    /\ validations = newValidations
    /\ Annotated(StructFields(Rec.typ)[1])
    /\ LET sc == ScopeAt(FieldName(StructFields(Rec.typ)[1])) IN
          /\ RulesOf(sc) # <<>>
          /\ RequiredFor(RulesOf(sc)[1], last.opts.method)
          /\ IsZero(sc.value)

----------------------------------------------------------------------------
(* Omitting empty fields *)

\* a dot-separated path is a key of what validate emitted
RECURSIVE HasKeyFrom(_, _, _)
HasKeyFrom(mapv, parts, i) ==
    /\ \E n \in 1..Len(mapv.m) : mapv.m[n].k = KeyOf(parts[i])
    /\ i < Len(parts) => HasKeyFrom(PartGet(mapv, parts[i]), parts, i + 1)
HasKey(path) == HasKeyFrom(last.dataMap, Split(path, "."), 1)

\* the annotation asks to omit the field when empty under the active
\* method, the path is not on the allow-list, and the value is zero
OmitCond(sc) ==
    /\ \/ Contains(sc.tag, <<"omitempty">>)
       \/ Contains(sc.tag, <<"omitempty", "_" \o last.opts.method[1]>>)
    /\ ~Contains(last.opts.emptyFieldsAllowed, sc.path)
    /\ IsZero(sc.value)

\* C5: an annotated field is skipped (none of its rules invoked, its key
\* absent from the output) exactly when its annotation contains omitempty
\* or omitempty_<active method>, its path is not on the allow-list and its
\* value is zero; omitempty_<other method> never causes a skip, and a
\* zero-valued field on the allow-list is validated and emitted.
C5_OmitEmpty ==
    OnRecord =>
        \A sc \in Scopes :
            /\ OmitCond(sc) => \A i \in 1..Len(last.log) : last.log[i].path # sc.path
            /\ last.err = NoErr => (HasKey(sc.path) <=> ~OmitCond(sc))

\* validate, with validation on, on the record whose field O carries
\* omitempty_create and required_update and is zero
OmitCall(method, allowed) ==
    /\ OnRecord
    /\ Rec.typ = "Meth" /\ Rec.f[2] = StrV(<<>>)
    /\ last.opts = validationOpts(method, FALSE, allowed, FALSE)

\* under create the zero field is left out, and once on the allow-list it
\* is emitted as it is; under validate omitempty_create leaves it in
C5_Witness ==
    /\ OmitCall(create, <<>>)
    /\ last.err = NoErr
    /\ ~HasKey(<<"O">>) /\ HasKey(<<"r">>)
    /\ \A i \in 1..Len(last.log) : last.log[i].path # <<"O">>

----------------------------------------------------------------------------
(* Method-specific rules, and rules that do not run on zero values *)

\* the token is not tied to a method other than the active one
MethodOk(r) ==
    \A m \in Methods : HasSuffix(TokenName(r), <<"_" \o m[1]>>) => m = last.opts.method

\* the registry entry of a token
EntryOfToken(r) ==
    IF HasPrefix(r, <<"transform", "=">>) THEN transformations[TokenName(r)]
    ELSE validations[TokenName(r)]

\* the rule of a token is in the registry
InRegistry(r) ==
    IF HasPrefix(r, <<"transform", "=">>) THEN TokenName(r) \in DOMAIN transformations
    ELSE TokenName(r) \in DOMAIN validations

\* rule k of the field has been invoked
Invoked(sc, k) ==
    \E i \in EventsAt(sc.path) : Token(RuleLog[i]) = RulesOf(sc)[k]

\* the value of the field when the chain reaches rule k
ValueBefore(sc, k) ==
    LET prev == {i \in EventsAt(sc.path) : Pos(RuleLog[i]) < k} IN
    IF prev = {} THEN sc.value ELSE After(RuleLog[Max(prev)])

\* C6: a rule whose name ends in _create, _update or _validate is invoked
\* only when that method is the active one, and is skipped otherwise; a
\* rule without such a suffix is invoked under every method.
C6_MethodSpecificRules ==
    OnRecord =>
        /\ \A i \in 1..Len(RuleLog) : MethodOk(Token(RuleLog[i]))
        /\ (last.err = NoErr /\ ~last.opts.skipValidation) =>
              \A sc \in Scopes : \A k \in 1..Len(RulesOf(sc)) :
                 LET r == RulesOf(sc)[k] IN
                 (/\ ~OmitCond(sc)
                  /\ MethodOk(r)
                  /\ InRegistry(r)
                  /\ EntryOfToken(r).runOnNil \/ ~IsZero(ValueBefore(sc, k))) => Invoked(sc, k)

\* under validate both rules of r,required_update,transform=fix_create are
\* passed over, the second without being looked up, and an empty r is emitted
C6_Witness ==
    /\ OnRecord
    /\ Rec = StructV("Meth", <<StrV(<<>>), StrV(<<"a">>)>>)
    /\ last.opts = validationOpts(validate, FALSE, <<>>, FALSE)
    /\ <<"fix", "_create">> \notin DOMAIN transformations
    /\ last.err = NoErr
    /\ RuleLog = <<>>
    /\ Emitted(<<"r">>) = StrV(<<>>)

\* the registry entry an invocation came from
EntryOf(e) == IF e.ev = "trans" THEN transformations[e.rule] ELSE validations[e.rule]

\* validate, with validation on, on a record whose first field carries a
\* required-family rule for the active method as its first rule
FirstRuleRequired ==
    /\ OnRecord
    /\ ~last.opts.skipValidation
    /\ Annotated(StructFields(Rec.typ)[1])
    /\ LET sc == ScopeAt(FieldName(StructFields(Rec.typ)[1])) IN
          /\ RulesOf(sc) # <<>>
          /\ RequiredFor(RulesOf(sc)[1], last.opts.method)
          /\ ~OmitCond(sc)

\* the first invocation is the required-family rule of the first field, on
\* the value the field holds
FirstInvocationRequired ==
    LET sc == ScopeAt(FieldName(StructFields(Rec.typ)[1])) IN
    /\ RuleLog # <<>>
    /\ RuleLog[1].ev = "val"
    /\ RuleLog[1].rule = RulesOf(sc)[1]
    /\ RuleLog[1].path = sc.path
    /\ RuleLog[1].value = sc.value

\* C7 (as claimed): a rule whose runs-on-nil flag is false is never invoked
\* while the value is zero, and the rules of the required family are
\* invoked whatever the value, in every registry state registrations reach.
C7_RequiredAlwaysInvoked ==
    /\ OnRecord => \A i \in 1..Len(RuleLog) :
          ~EntryOf(RuleLog[i]).runOnNil => ~IsZero(RuleLog[i].value)
    /\ FirstRuleRequired => FirstInvocationRequired

\* C7 (amended): a rule whose runs-on-nil flag is false is never invoked
\* while the value is zero (min=18 does not reject 0), and a rule of the
\* required family is invoked whatever the value as long as its registry
\* entry has runs-on-nil true, as the entries registered at construction do.
C7_RunOnNil ==
    /\ OnRecord => \A i \in 1..Len(RuleLog) :
          ~EntryOf(RuleLog[i]).runOnNil => ~IsZero(RuleLog[i].value)
    /\ (/\ FirstRuleRequired
        /\ validations[RulesOf(ScopeAt(FieldName(StructFields(Rec.typ)[1])))[1]].runOnNil)
          => FirstInvocationRequired
    /\ (/\ OnRecord
        /\ Rec = StructV("User", <<StrV(Letters(3)), IntV(0)>>)
        /\ ~last.opts.skipValidation
        /\ validations = newValidations)
          => /\ last.err = NoErr
             /\ EventsAt(<<"age">>) = {}
             /\ Emitted(<<"age">>) = IntV(0)

\* required, registered to accept everything and to run on zero values, is
\* invoked on the empty name; min=3 and min=18 are not invoked on the empty
\* name and on age 0, which are emitted
C7_Witness ==
    /\ OnRecord
    /\ Rec = StructV("User", <<StrV(<<>>), IntV(0)>>)
    /\ ~last.opts.skipValidation
    /\ validations[<<"required">>] = [fn |-> "vTrue", runOnNil |-> TRUE]
    /\ RuleNames = <<<<"required">>>>
    /\ RuleLog[1].value = StrV(<<>>)
    /\ last.err = NoErr
    /\ Emitted(<<"age">>) = IntV(0)

----------------------------------------------------------------------------
(* Error formatters *)

\* the field error behind the error validate returned
FieldErrorOf(err) == [err EXCEPT !.kind = "fieldError", !.by = ""]

\* the place of the first formatter that returns an error for fe, 0 when
\* none does
FirstFormatting(fe) ==
    LET S == {k \in 1..Len(errFormatters) : CallFormatter(errFormatters[k], fe) # NoErr}
    IN IF S = {} THEN 0 ELSE CHOOSE k \in S : \A j \in S : k <= j

----------------------------------------------------------------------------
(* Type changes and unknown rules *)

\* C9: when a transformation returns a value whose type differs from the
\* type of the field's current value, validate fails with TypeMismatch; the
\* returned value never replaces the value of the scope, is never emitted
\* and is never written back.
C9_TypeMismatch ==
    OnRecord =>
        \A i \in 1..Len(RuleLog) :
            (/\ RuleLog[i].ev = "trans"
             /\ ~Failed(RuleLog[i])
             /\ After(RuleLog[i]).typ # RuleLog[i].value.typ)
            => /\ last.err.kind = "error" /\ last.err.msg = "TypeMismatch"
               /\ last.dataMap = NilV
               /\ last.after = last.data
               /\ \A j \in EventsAt(RuleLog[i].path) :
                     j > i => RuleLog[j].value # After(RuleLog[i])

\* a field of the record type names a rule the registry does not hold
UnknownRuleIn(typ) ==
    \E i \in 1..Len(StructFields(typ)) :
        LET ft == StructFields(typ)[i]
            rules == SelectSeq(Tail(parseTag(ft.tag)), IsRuleToken)
        IN /\ Annotated(ft)
           /\ \E k \in 1..Len(rules) :
                 IF HasPrefix(rules[k], <<"transform", "=">>)
                 THEN TokenName(rules[k]) \notin DOMAIN transformations
                 ELSE TokenName(rules[k]) \notin DOMAIN validations

\* C10: when an annotated field of the record type names a rule that is not
\* in the registry, validate fails with the UnknownRule build error, which
\* is not a field error and is not passed to the formatters, whatever the
\* values, the omit policies, the outcome of earlier rules and the
\* suppression of validation.
C10_UnknownRule ==
    (OnRecord /\ UnknownRuleIn(Rec.typ)) =>
        /\ last.err.kind = "error" /\ last.err.msg = "UnknownRule"
        /\ last.dataMap = NilV
        /\ FmtLog = <<>>

----------------------------------------------------------------------------
(* Registration *)

\* a call of registerValidation or registerTransformation has just returned
Registered == last.op \in {"registerValidation", "registerTransformation"}

\* the error registration returns for a reserved name
ReservedRuleName == "restricted characters or same as a built-in rule"

\* the name is a structural token or contains a reserved character
StructuralOrReservedChar(name) ==
    \/ name \in {<<"dive">>, <<"omitempty">>, <<"omitempty", "_create">>,
                  <<"omitempty", "_update">>, <<"omitempty", "_validate">>}
    \/ \E i \in 1..Len(name) : name[i] \in {".", "[", "]", ",", "=", "|"}

\* the name is that of a rule registered at construction
BuiltInName(name) ==
    name \in DOMAIN newValidations \/ name \in DOMAIN newTransformations

\* C11 (as claimed): registering a validation or transformation under the
\* name of a built-in rule, under a structural token or under a name with
\* a reserved character fails with ReservedRuleName.
C11_ReservedIncludesBuiltIn ==
    (Registered /\ (BuiltInName(last.name) \/ StructuralOrReservedChar(last.name)))
        => last.err = ReservedRuleName

\* C11 (amended): registering a validation or transformation under a
\* structural token (dive, omitempty, omitempty_create, omitempty_update,
\* omitempty_validate) or under a name with a reserved character fails with
\* the reserved-name error and leaves the registry unchanged; the name of a
\* built-in rule is accepted.
C11_ReservedRuleName ==
    [][(/\ last'.op \in {"registerValidation", "registerTransformation"}
        /\ StructuralOrReservedChar(last'.name))
       => (/\ last'.err = ReservedRuleName
           /\ UNCHANGED <<validations, transformations, errFormatters>>)]_vars

\* registering a validation under dive has just failed
C11_Witness ==
    /\ last.op = "registerValidation"
    /\ last.name = <<"dive">> /\ last.fn = "vTrue"
    /\ last.err = ReservedRuleName
    /\ validations = newValidations

\* the registry maps m and n agree on every name but k
SameBut(m, n, k) ==
    /\ DOMAIN n = DOMAIN m \cup {k}
    /\ \A x \in DOMAIN m \ {k} : n[x] = m[x]

\* a registration step binds the name to what the call passed when the call
\* succeeds, and changes no other binding; it changes nothing when it fails
RegistrationStep ==
    /\ last'.op = "registerValidation" =>
          /\ transformations' = transformations
          /\ IF last'.err = ""
             THEN /\ validations'[last'.name] = [fn |-> last'.fn, runOnNil |-> last'.runOnNil]
                  /\ SameBut(validations, validations', last'.name)
             ELSE validations' = validations
    /\ last'.op = "registerTransformation" =>
          /\ validations' = validations
          /\ IF last'.err = ""
             THEN /\ transformations'[last'.name] =
                        [fn |-> last'.fn, runOnNil |-> last'.runOnNil]
                  /\ SameBut(transformations, transformations', last'.name)
             ELSE transformations' = transformations
    /\ last'.op \notin {"registerValidation", "registerTransformation"} =>
          /\ validations' = validations
          /\ transformations' = transformations

\* C12: the implementation and the runs-on-nil flag bound to a name in a
\* namespace are those of the most recent successful registration of that
\* name in that namespace; a user transformation registered under uppercase
\* is accepted, replaces the built-in one, and is the one validate invokes.
C12_LastRegistrationWins ==
    /\ [][RegistrationStep]_vars
    /\ [](last.op = "registerTransformation" /\ last.name = <<"uppercase">>
              /\ last.fn # NilFn => last.err = "")
    /\ [](OnRecord => \A i \in 1..Len(RuleLog) :
              /\ RuleLog[i].fn = EntryOf(RuleLog[i]).fn
              /\ ~IsZero(RuleLog[i].value) \/ EntryOf(RuleLog[i]).runOnNil)

\* validate has invoked the user's implementation of uppercase
C12_Witness ==
    /\ OnRecord
    /\ transformations[<<"uppercase">>].fn = "tUpper"
    /\ \E i \in 1..Len(RuleLog) :
          RuleLog[i].ev = "trans" /\ RuleLog[i].rule = <<"uppercase">>
          /\ RuleLog[i].fn = "tUpper"

\* the call that has just returned was given no name, no implementation or
\* no formatter
BadRegistration(l) ==
    \/ /\ l.op \in {"registerValidation", "registerTransformation"}
       /\ (Len(l.name) = 0 \/ l.fn = NilFn)
    \/ l.op = "registerErrorFormatter" /\ l.fn = NilFn

FailedRegistration(l) ==
    /\ l.op \in {"registerValidation", "registerTransformation", "registerErrorFormatter"}
    /\ l.err # ""

\* C13: registerValidation and registerTransformation return an error when
\* the name is empty or the implementation is absent, registerErrorFormatter
\* returns an error when the formatter is absent, and after every failed
\* call the two registries and the formatter chain are as they were before.
C13_FailedRegistrationChangesNothing ==
    [][/\ BadRegistration(last') => last'.err # ""
       /\ FailedRegistration(last') =>
             UNCHANGED <<validations, transformations, errFormatters>>]_vars

\* a transformation registered with no implementation after a formatter was
\* registered: the call failed and the chain and registries are intact
C13_Witness ==
    /\ last.op = "registerTransformation"
    /\ last.name = <<"uppercase">> /\ last.fn = NilFn
    /\ last.err = "function cannot be empty"
    /\ errFormatters = <<"fAll">>
    /\ transformations = newTransformations

RECURSIVE LeavesOf(_, _, _)
\* the fields of a record value that are not themselves traversed records,
\* nested ones included: declared path, output path, value
LeavesOf(val, path, structPath) ==
    UNION {LET ft == StructFields(val.typ)[i]
               sp == getFieldPath(structPath, ft.name)
           IN IF Annotated(ft) /\ val.f[i].kind = "struct" /\ val.f[i].typ # TimeType
              THEN LeavesOf(val.f[i], getFieldPath(path, FieldName(ft)), sp)
              ELSE {[structPath |-> sp, annotated |-> Annotated(ft),
                     path |-> IF Annotated(ft) THEN getFieldPath(path, FieldName(ft))
                              ELSE <<>>,
                     value |-> val.f[i]]}
           : i \in 1..Len(val.f)}

\* the same field of the caller's record once validate has returned
LeafAfter(lf) ==
    (CHOOSE a \in LeavesOf(last.after.f[1], <<>>, <<>>) : a.structPath = lf.structPath).value

\* the transformations that changed the value of the field at a path
ChangesAt(path) ==
    {i \in EventsAt(path) : RuleLog[i].ev = "trans" /\ After(RuleLog[i]) # RuleLog[i].value}

\* C14: unless the caller requests write-back, validate leaves every field
\* of the caller's record unchanged, even when transformations change the
\* emitted values; with write-back a field of the record is written only if
\* a transformation changed its value, and every other field is unchanged.
C14_WriteBack ==
    OnRecord =>
        /\ ~last.opts.modifyOriginal => last.after = last.data
        /\ last.opts.modifyOriginal =>
              \A lf \in LeavesOf(Rec, <<>>, <<>>) :
                  /\ LeafAfter(lf) # lf.value =>
                        /\ lf.annotated
                        /\ ChangesAt(lf.path) # {}
                        /\ LeafAfter(lf) = After(RuleLog[Max(EventsAt(lf.path))])
                  /\ (last.err = NoErr /\ lf.annotated /\ ChangesAt(lf.path) # {}) =>
                        LeafAfter(lf) = After(RuleLog[Max(EventsAt(lf.path))])

\* with write-back the trimmed and uppercased code is in the caller's record
\* and the other field is as it was
C14_Witness ==
    /\ TrimCall
    /\ last.opts.modifyOriginal
    /\ last.err = NoErr
    /\ last.after = PtrV(StructV("Trans", <<StrV(<<"A">>), IntV(0)>>))

\* without write-back the emitted code is transformed and the record is not
C14_WitnessUnchanged ==
    /\ TrimCall
    /\ ~last.opts.modifyOriginal
    /\ last.err = NoErr
    /\ Emitted(<<"code">>) = StrV(<<"A">>)
    /\ last.after = last.data

----------------------------------------------------------------------------
(* Validating twice *)

\* the call that has just returned found the record valid and emitted every
\* annotated field
ValidInFull ==
    /\ OnRecord
    /\ last.err = NoErr
    /\ \A sc \in Scopes : HasKey(sc.path)

\* what the same call returns when it is made again on the record as the
\* first call left it
SecondCall == validateCall(last.after, last.opts)

Registry == <<validations, transformations, errFormatters>>

----------------------------------------------------------------------------
(* Errors of rule implementations and of formatters *)

\* the error the implementation returned in an invocation, NoErr when none
ReturnedErr(e) ==
    IF e.ev = "val" THEN CallValidation(e.fn, EventScope(e)).err
    ELSE CallTransformation(e.fn, EventScope(e)).err

\* C19: an error returned by a rule implementation, validation or
\* transformation, is what validate returns: it is not made a field error
\* and no formatter is invoked on it; an error returned by a formatter is
\* likewise what validate returns.
C19_ErrorsPassThrough ==
    OnRecord =>
        /\ \A i \in 1..Len(RuleLog) : ReturnedErr(RuleLog[i]) # NoErr =>
              /\ last.err = ReturnedErr(RuleLog[i])
              /\ i = Len(RuleLog)
              /\ FmtLog = <<>>
        /\ \A i \in 1..Len(FmtLog) :
              LET err == CallFormatter(FmtLog[i].fn,
                                       [FieldErrorOf(last.err) EXCEPT !.rule = FmtLog[i].rule])
              IN err # NoErr => (last.err = err /\ i = Len(FmtLog))

\* the transformation registered under uppercase returns an error on a
\* record that passed the rules before it; a formatter is registered and is
\* not invoked
C19_Witness ==
    /\ OnRecord
    /\ errFormatters = <<"fAll">>
    /\ last.err = UserErr("tErr")
    /\ Len(RuleLog) > 1
    /\ RuleLog[Len(RuleLog)].ev = "trans" /\ RuleLog[Len(RuleLog)].fn = "tErr"
    /\ FmtLog = <<>>

\* a formatter's error is what validate returns
C19_WitnessFormatter ==
    /\ OnRecord
    /\ errFormatters = <<"fNil", "fAll">>
    /\ last.err.kind = "formatted" /\ last.err.by = "fAll"

----------------------------------------------------------------------------
(* Paths of nested fields *)

RECURSIVE PathsOf(_, _, _)
\* the annotated fields of a record value, nested records included, each
\* with its declared path and with the path the claim gives it: the
\* parent's path, a dot, and the field's output name
PathsOf(val, path, structPath) ==
    UNION {LET ft == StructFields(val.typ)[i]
               out == IF Cut(ft.tag, ",")[1] # <<>> THEN TrimSpace(Cut(ft.tag, ",")[1])
                      ELSE ft.name
               p == IF path = <<>> THEN out ELSE Join(<<path, out>>, ".")
               sp == IF structPath = <<>> THEN ft.name ELSE Join(<<structPath, ft.name>>, ".")
           IN IF ~Annotated(ft) THEN {}
              ELSE {[path |-> p, structPath |-> sp]}
                   \cup (IF val.f[i].kind = "struct" THEN PathsOf(val.f[i], p, sp) ELSE {})
                   \cup (IF val.f[i].kind = "slice"
                         THEN UNION {IF val.f[i].f[j].kind = "struct"
                                     THEN PathsOf(val.f[i].f[j], p \o <<IndexSym(j - 1)>>,
                                                  sp \o <<IndexSym(j - 1)>>)
                                     ELSE {} : j \in 1..Len(val.f[i].f)}
                         ELSE {})
           : i \in 1..Len(val.f)}

IsFieldError(err) == err.kind \in {"fieldError", "formatted"}

\* C20: the path reported for a rule that fails inside a nested record is
\* the parent field's path, a dot, and the failing field's output name (its
\* rename if given, otherwise its declared name), at every nesting depth;
\* inner street,required with an empty Street under outer address fails
\* with path address.street.
C20_NestedPath ==
    (OnRecord /\ IsFieldError(last.err)) =>
        /\ \E d \in PathsOf(Rec, <<>>, <<>>) :
              d.structPath = last.err.structPath /\ d.path = last.err.path
        /\ last.err.structPath = <<"Address", ".", "Street">> =>
              last.err.path = <<"address", ".", "street">>
        /\ last.err.structPath = <<"Order", ".", "Address", ".", "Street">> =>
              last.err.path = <<"order", ".", "address", ".", "street">>

\* required fails on the empty Street of the Address of an Order
C20_Witness ==
    /\ OnRecord /\ IsFieldError(last.err)
    /\ Rec.typ = "Order"
    /\ last.err.rule = <<"required">>
    /\ last.err.path = <<"address", ".", "street">>

\* the same one level deeper
C20_WitnessDeeper ==
    /\ OnRecord /\ IsFieldError(last.err)
    /\ Rec.typ = "Ship"
    /\ last.err.path = <<"order", ".", "address", ".", "street">>

----------------------------------------------------------------------------
(* Concurrent calls and the metadata cache *)

\* the call of caller c has returned
Done(c) == calls[c].pc = "done"

\* what the call of caller c returns when it runs alone on an engine whose
\* cache is empty: it misses, builds, stores and walks what it built
Alone(c) == validateCached(buildMetadata(TypeOf(c)), calls[c].data, calls[c].opts)

----------------------------------------------------------------------------
(* Options values as a state machine: a caller builds o call by call, then
   makes o1 and o2 from what it holds *)

\* o = o.M(args...)
OptionBuild(c) ==
    /\ ~options[2].held
    /\ Len(options[1].made) < MaxCalls
    /\ \E r \in {CallOption(heap, options[1].val, c)} :
          /\ heap' = r.heap
          /\ options' = [options EXCEPT
                            ![1] = Held(r.o, Append(options[1].made, c), r.heap)]
    /\ UNCHANGED <<validations, transformations, errFormatters, nRegs, last, cache, calls,
                   store, answer, graph, walk>>

\* o1 = o.M(args...), o2 = o.M(args...) or o2 = o1.M(args...)
OptionDerive(dst, src, c) ==
    /\ ~options[dst].held
    /\ options[src].held /\ src < dst
    /\ dst = 3 => options[2].held
    /\ \E r \in {CallOption(heap, options[src].val, c)} :
          /\ heap' = r.heap
          /\ options' = [options EXCEPT
                            ![dst] = Held(r.o, Append(options[src].made, c), r.heap)]
    /\ UNCHANGED <<validations, transformations, errFormatters, nRegs, last, cache, calls,
                   store, answer, graph, walk>>

OptsNext ==
    \/ \E c \in OptionCalls : OptionBuild(c)
    \/ \E dst \in {2, 3}, src \in {1, 2}, c \in OptionCalls : OptionDerive(dst, src, c)

OptsSpec == Init /\ [][OptsNext]_vars

----------------------------------------------------------------------------
(* The collection as a state machine: documents are written and deleted,
   and a caller asks Find and then Count of the same query *)

\* a document is created, or its field is updated
StoreWrite(id, v) ==
    /\ answer.op = "none"
    /\ store[id] # v
    /\ store' = [store EXCEPT ![id] = v]
    /\ UNCHANGED <<validations, transformations, errFormatters, nRegs, last, cache, calls,
                   heap, options, answer, graph, walk>>

\* a document is deleted
StoreDelete(id) ==
    /\ answer.op = "none"
    /\ store[id] # 0
    /\ store' = [store EXCEPT ![id] = 0]
    /\ UNCHANGED <<validations, transformations, errFormatters, nRegs, last, cache, calls,
                   heap, options, answer, graph, walk>>

\* Find(query)
StoreFind(query) ==
    /\ answer.op = "none"
    /\ answer' = [op |-> "find", query |-> query, docs |-> Find(store, query), count |-> 0]
    /\ UNCHANGED <<validations, transformations, errFormatters, nRegs, last, cache, calls,
                   heap, options, store, graph, walk>>

\* Count of the query Find was asked
StoreCount ==
    /\ answer.op = "find"
    /\ answer' = [answer EXCEPT !.op = "count", !.count = Count(store, answer.query)]
    /\ UNCHANGED <<validations, transformations, errFormatters, nRegs, last, cache, calls,
                   heap, options, store, graph, walk>>

\* the caller takes both answers
StoreReturn ==
    /\ answer.op = "count"
    /\ answer' = NoAnswer
    /\ UNCHANGED <<validations, transformations, errFormatters, nRegs, last, cache, calls,
                   heap, options, store, graph, walk>>

StoreNext ==
    \/ \E id \in DocIDs, v \in DocValues : StoreWrite(id, v)
    \/ \E id \in DocIDs : StoreDelete(id)
    \/ \E query \in Queries : StoreFind(query)
    \/ StoreCount
    \/ StoreReturn

StoreSpec == Init /\ [][StoreNext]_vars

----------------------------------------------------------------------------
(* validate on a record value that contains itself, one frame at a time *)

Top == walk.stack[Len(walk.stack)]

\* validate(&node1) on the record value g: validateFields on its first record
WalkStart(g) ==
    /\ walk.pc = "idle"
    /\ graph' = g
    /\ walk' = [pc |-> "walking", stack |-> <<Frame(1, 1)>>]
    /\ UNCHANGED <<validations, transformations, errFormatters, nRegs, last, cache, calls,
                   heap, options, store, answer>>

\* processField on a field that holds no record (a nil pointer, an empty
\* sequence): the loop of validateFields moves to the next field
WalkSkip ==
    /\ walk.pc = "walking" /\ walk.stack # <<>>
    /\ Top.field <= 2 /\ Below(graph, Top) = 0
    /\ walk' = [walk EXCEPT !.stack[Len(walk.stack)].field = @ + 1]
    /\ UNCHANGED <<validations, transformations, errFormatters, nRegs, last, cache, calls,
                   heap, options, store, answer, graph>>

\* processField on a field that holds a record: the pointer is dereferenced,
\* or the sequence dived into, and processFinalValue calls validateFields on
\* the record, whether or not it is being visited already
WalkDescend ==
    /\ walk.pc = "walking" /\ walk.stack # <<>>
    /\ Top.field <= 2 /\ Below(graph, Top) # 0
    /\ Len(walk.stack) < MaxDepth
    /\ walk' = [walk EXCEPT !.stack = Append(@, Frame(Below(graph, Top), 1))]
    /\ UNCHANGED <<validations, transformations, errFormatters, nRegs, last, cache, calls,
                   heap, options, store, answer, graph>>

\* the same when the stack cannot grow any further: the run-time ends the
\* process, validate returns nothing
WalkOverflow ==
    /\ walk.pc = "walking" /\ walk.stack # <<>>
    /\ Top.field <= 2 /\ Below(graph, Top) # 0
    /\ Len(walk.stack) = MaxDepth
    /\ walk' = [walk EXCEPT !.pc = "fatal"]
    /\ UNCHANGED <<validations, transformations, errFormatters, nRegs, last, cache, calls,
                   heap, options, store, answer, graph>>

\* validateFields returns its map: the caller's loop moves to its next
\* field, and validate returns when it was the outermost frame
WalkReturn ==
    /\ walk.pc = "walking" /\ walk.stack # <<>>
    /\ Top.field = 3
    /\ walk' = IF Len(walk.stack) = 1 THEN [pc |-> "returned", stack |-> <<>>]
               ELSE [walk EXCEPT !.stack =
                        [SubSeq(@, 1, Len(@) - 1) EXCEPT ![Len(@) - 1].field = @ + 1]]
    /\ UNCHANGED <<validations, transformations, errFormatters, nRegs, last, cache, calls,
                   heap, options, store, answer, graph>>

WalkNext ==
    \/ \E g \in Graphs : WalkStart(g)
    \/ WalkSkip
    \/ WalkDescend
    \/ WalkOverflow
    \/ WalkReturn

\* a call that has started keeps running
WalkSpec == Init /\ [][WalkNext]_vars /\ WF_vars(WalkNext)

----------------------------------------------------------------------------
(* Dived sequences *)

\* path p lies inside an element of the sequence at path fp
IsElementPath(p, fp) ==
    /\ Len(p) > Len(fp)
    /\ SubSeq(p, 1, Len(fp)) = fp
    /\ \E k \in 0..5 : p[Len(fp) + 1] = IndexSym(k)

\* the sequence fields annotated with dive
DivedScopes == {sc \in Scopes : Contains(sc.tag, <<"dive">>) /\ sc.value.kind = "slice"}

\* the invocations made while the elements of the sequence at fp are visited
ElementEvents(fp) == {j \in 1..Len(RuleLog) : IsElementPath(RuleLog[j].path, fp)}

\* validate on the record whose field Tags carries tags,min=1,max=5,dive and
\* holds six tags
SixTags ==
    /\ OnRecord
    /\ Rec = StructV("Post", <<SliceV("string", [i \in 1..6 |-> StrV(<<"a">>)])>>)
    /\ ~last.opts.skipValidation

C21_WitnessFieldFails ==
    /\ OnRecord /\ Rec.typ = "Cart" /\ Len(Rec.f[1].f) = 3
    /\ IsFieldError(last.err)
    /\ last.err.rule = <<"max">> /\ last.err.path = <<"items">>
    /\ ElementEvents(<<"items">>) = {}

\* the six tags fail with max at tags
C21_WitnessSixTags ==
    /\ SixTags /\ validations = newValidations
    /\ IsFieldError(last.err) /\ last.err.rule = <<"max">> /\ last.err.path = <<"tags">>

----------------------------------------------------------------------------
(* Validation suppression *)

\* the paths validation is suppressed for
SkippedPaths == {last.opts.skipValFields[i] : i \in 1..Len(last.opts.skipValFields)}

\* the top-level fields declared before that of scope sc
Before(sc) == {o \in Scopes : o.top < sc.top}

\* suppression requested with no path: no rule is invoked
SuppressedAll ==
    (OnRecord /\ last.opts.skipValidation /\ SkippedPaths = {}) => RuleLog = <<>>

\* under suppression nothing fails, renamed fields are emitted under their
\* output names, ignored fields are not emitted, and a field is left out
\* exactly when its omitempty applies
SuppressedKeepsNames ==
    (OnRecord /\ last.opts.skipValidation) =>
        /\ last.err = NoErr
        /\ \A sc \in Scopes : HasKey(sc.path) <=> ~OmitCond(sc)
        /\ \A i \in 1..Len(last.dataMap.m) :
              \E k \in 1..Len(Rec.f) :
                 /\ Annotated(StructFields(Rec.typ)[k])
                 /\ last.dataMap.m[i].k = FieldName(StructFields(Rec.typ)[k])

\* C22: suppression requested with paths skips the rules of the fields at
\* those paths only (a field at another path that has a value, that comes
\* after skipped fields only and whose first rule applies under the method
\* has that rule invoked); requested with no path it skips the rules of all
\* fields; rename, ignore and omitempty handling still apply in both cases.
C22_OnlyNamedFieldsSkipped ==
    /\ SuppressedAll
    /\ SuppressedKeepsNames
    /\ (OnRecord /\ last.opts.skipValidation /\ SkippedPaths # {}) =>
          \A sc \in Scopes :
             /\ sc.path \in SkippedPaths => EventsAt(sc.path) = {}
             /\ ( /\ sc.path \notin SkippedPaths
                  /\ \A o \in Before(sc) : o.path \in SkippedPaths
                  /\ hasValue(sc.value.kind, sc.value)
                  /\ RulesOf(sc) # <<>>
                  /\ ~skipForMethod(RulesOf(sc)[1], last.opts.method) )
                => EventsAt(sc.path) # {}

----------------------------------------------------------------------------
(* Options values are immutable *)

\* what the Options value in slot s reads as now
Now(s) == Reading(heap, options[s].val)

\* the last call that made the value in slot s
LastCall(s) == options[s].made[Len(options[s].made)]

\* o1 and o2 were both made from o by the list method op, with one field each
BothFrom(op) ==
    /\ options[2].held /\ options[3].held
    /\ options[2].made = Append(options[1].made, LastCall(2))
    /\ options[3].made = Append(options[1].made, LastCall(3))
    /\ LastCall(2).op = op /\ LastCall(3).op = op
    /\ LastCall(2).args # <<>> /\ LastCall(3).args # <<>>

\* the list the method op appends to, in a reading
ListOf(op, reading) ==
    CASE op = "AllowEmptyFields" -> reading.allowEmptyFields
      [] op = "SkipValidationFields" -> reading.skipValFields
      [] op = "SkipValidationRules" -> reading.skipValRules
      [] op = "ReplaceFields" -> reading.mergeFields

ListMethods ==
    {"AllowEmptyFields", "SkipValidationFields", "SkipValidationRules", "ReplaceFields"}

\* C23: an Options value reads the same for as long as it is held, whatever
\* is called on it or on values made from it; after o1 = o.M(a) and then
\* o2 = o.M(b) for a list method M, o's list is unchanged, o1's list is o's
\* list followed by a and o2's list is o's list followed by b.
C23_OptionsImmutable ==
    /\ \A s \in Slots : options[s].held => Now(s) = options[s].was
    /\ \A op \in ListMethods : BothFrom(op) =>
          /\ ListOf(op, Now(2)) = ListOf(op, Now(1)) \o LastCall(2).args
          /\ ListOf(op, Now(3)) = ListOf(op, Now(1)) \o LastCall(3).args

\* o holds three fields in an array of four; o1 and o2 are made from it
C23_Shared ==
    /\ BothFrom("AllowEmptyFields")
    /\ options[1].val.allowEmptyFields.len = 3
    /\ options[1].val.allowEmptyFields.cap = 4
    /\ LastCall(2).args = <<"a">> /\ LastCall(3).args = <<"b">>

----------------------------------------------------------------------------
(* ReplaceAll and ReplaceFields *)

RECURSIVE MergeAfter(_, _)
\* what the first n calls of a sequence leave, the later call deciding:
\* ReplaceAll disables merging and empties the list, ReplaceFields enables
\* merging and adds its fields to the list
MergeAfter(made, n) ==
    IF n = 0 THEN [disableMerge |-> FALSE, mergeFields |-> <<>>]
    ELSE IF made[n].op = "ReplaceAll" THEN [disableMerge |-> TRUE, mergeFields |-> <<>>]
    ELSE IF made[n].op = "ReplaceFields"
    THEN [disableMerge |-> FALSE,
          mergeFields |-> MergeAfter(made, n - 1).mergeFields \o made[n].args]
    ELSE MergeAfter(made, n - 1)

\* the reading agrees with the calls that made the value
Decided(reading, made) ==
    /\ reading.disableMerge = MergeAfter(made, Len(made)).disableMerge
    /\ reading.mergeFields = MergeAfter(made, Len(made)).mergeFields
    /\ ~(reading.disableMerge /\ reading.mergeFields # <<>>)

\* every Options value reads, when it is returned, as its calls decide
DecidedAtReturn == \A s \in Slots : options[s].held => Decided(options[s].was, options[s].made)

\* C26: an Options value reads as the sequence of ReplaceAll and
\* ReplaceFields calls that made it decides: after ReplaceAll merging is
\* disabled and the list is empty, after ReplaceFields merging is enabled
\* and the list holds the fields of every ReplaceFields call since the last
\* ReplaceAll, in call order; merging is never disabled while the list is
\* non-empty.
C26_LaterCallDecides == \A s \in Slots : options[s].held => Decided(Now(s), options[s].made)

----------------------------------------------------------------------------
(* Count and Find *)

\* C27: for every query and every state of the store, Count returns the
\* number of documents Find returns for the same query, also when the ID
\* clause names documents that do not exist or names an ID twice.
C27_CountIsFindLength ==
    answer.op = "count" => answer.count = Len(answer.docs)

\* without an ID clause, and with an ID clause naming existing documents
\* only, the two agree
CountAgreesOnExisting ==
    (answer.op = "count" /\ \A i \in 1..Len(answer.query.ids) : store[answer.query.ids[i]] # 0)
        => answer.count = Len(answer.docs)

----------------------------------------------------------------------------
(* Built-in transformations on values that are no strings *)

BuiltInTransformations == {"transformUppercase", "transformLowercase", "transformTrimSpace"}

\* invocation j is that of a built-in transformation on a value of a kind
\* other than string
OnNonString(j) ==
    /\ RuleLog[j].ev = "trans"
    /\ RuleLog[j].fn \in BuiltInTransformations
    /\ RuleLog[j].value.kind # "string"

\* C24: uppercase, lowercase and trim_space applied to a field of a
\* non-string kind report no error and no fault for that rule, and leave the
\* value and its type as they are: the rule after it sees the same value,
\* and that value is emitted when it was the last rule.
C24_NonStringUntouched ==
    OnRecord =>
        \A j \in 1..Len(RuleLog) : OnNonString(j) =>
            /\ ~Failed(RuleLog[j])
            /\ ~(j = Len(RuleLog) /\ last.err.kind = "panic")
            /\ \A k \in EventsAt(RuleLog[j].path) :
                  k = j + 1 => RuleLog[k].value = RuleLog[j].value
            /\ (last.err = NoErr /\ j = Max(EventsAt(RuleLog[j].path))) =>
                  Emitted(RuleLog[j].path) = RuleLog[j].value

\* the same for the kinds whose values can be compared
NonStringComparableUntouched ==
    OnRecord =>
        \A j \in 1..Len(RuleLog) : (OnNonString(j) /\ Comparable(RuleLog[j].value)) =>
            /\ ~Failed(RuleLog[j])
            /\ ~(j = Len(RuleLog) /\ last.err.kind = "panic")
            /\ \A k \in EventsAt(RuleLog[j].path) :
                  k = j + 1 => RuleLog[k].value = RuleLog[j].value

\* uppercase is applied to the number 7 and the next rule sees 7
NumberUntouched ==
    /\ OnRecord /\ Rec.typ = "Trans"
    /\ \E j \in 1..Len(RuleLog) :
          /\ OnNonString(j) /\ RuleLog[j].value = IntV(7)
          /\ j + 1 \in EventsAt(RuleLog[j].path)

----------------------------------------------------------------------------
(* What a Field Error reports *)

\* the call ended with the last validation invoked returning false, and no
\* formatter replaced the field error
RuleFailed ==
    /\ OnRecord /\ RuleLog # <<>>
    /\ last.err.kind = "fieldError"
    /\ RuleLog[Len(RuleLog)].ev = "val"
    /\ LET r == CallValidation(RuleLog[Len(RuleLog)].fn, EventScope(RuleLog[Len(RuleLog)]))
       IN r.err = NoErr /\ ~r.valid

\* the field name an error reports is the last component of its path
NamedAfterPath(err) ==
    /\ err.field # <<>> /\ "." \notin {err.field[i] : i \in 1..Len(err.field)}
    /\ Len(err.path) >= Len(err.field)
    /\ SubSeq(err.path, Len(err.path) - Len(err.field) + 1, Len(err.path)) = err.field
    /\ Len(err.path) > Len(err.field) => err.path[Len(err.path) - Len(err.field)] = "."

\* the rule name and the parameter of the token r=p of the failed rule
FailedToken == Token(RuleLog[Len(RuleLog)])

\* C25: the Field Error of a failed rule r=p reports rule r and parameter p
\* (empty when the rule has none), the field's output name, its path, and
\* the value the rule was applied to.
C25_FieldErrorReports ==
    RuleFailed =>
        /\ last.err.rule = Cut(FailedToken, "=")[1]
        /\ last.err.param = Cut(FailedToken, "=")[2]
        /\ last.err.path = RuleLog[Len(RuleLog)].path
        /\ NamedAfterPath(last.err)
        /\ last.err.value = RuleLog[Len(RuleLog)].value

\* all of it but the parameter
FieldErrorReportsButParam ==
    RuleFailed =>
        /\ last.err.rule = Cut(FailedToken, "=")[1]
        /\ last.err.path = RuleLog[Len(RuleLog)].path
        /\ NamedAfterPath(last.err)
        /\ last.err.value = RuleLog[Len(RuleLog)].value

----------------------------------------------------------------------------
(* Method suffixes and parameters *)

\* the parameter of a validation token, empty when it has none
ParamOf(r) == IF HasPrefix(r, <<"transform", "=">>) THEN <<>> ELSE Cut(r, "=")[2]

\* the parameter ends in a method suffix
ParamHasSuffix(r) == \E m \in Methods : HasSuffix(ParamOf(r), <<"_" \o m[1]>>)

\* C28: whether a rule is skipped for the active method depends on its name
\* only: a registered rule r=p whose name carries no suffix of another
\* method is invoked, in a call that succeeds, whenever the chain reaches it
\* on a value it runs on, also when p ends in _create, _update or _validate.
C28_ParameterNotASuffix ==
    (OnRecord /\ last.err = NoErr /\ ~last.opts.skipValidation) =>
        \A sc \in Scopes : \A k \in 1..Len(RulesOf(sc)) :
           (/\ ParamOf(RulesOf(sc)[k]) # <<>>
            /\ ~OmitCond(sc)
            /\ MethodOk(RulesOf(sc)[k])
            /\ InRegistry(RulesOf(sc)[k])
            /\ EntryOfToken(RulesOf(sc)[k]).runOnNil \/ ~IsZero(ValueBefore(sc, k)))
              => Invoked(sc, k)

\* the same for the parameters that end in no method suffix
ParameterWithoutSuffix ==
    (OnRecord /\ last.err = NoErr /\ ~last.opts.skipValidation) =>
        \A sc \in Scopes : \A k \in 1..Len(RulesOf(sc)) :
           (/\ ParamOf(RulesOf(sc)[k]) # <<>>
            /\ ~ParamHasSuffix(RulesOf(sc)[k])
            /\ ~OmitCond(sc)
            /\ MethodOk(RulesOf(sc)[k])
            /\ InRegistry(RulesOf(sc)[k])
            /\ EntryOfToken(RulesOf(sc)[k]).runOnNil \/ ~IsZero(ValueBefore(sc, k)))
              => Invoked(sc, k)

----------------------------------------------------------------------------
(* Write-back to optional-reference fields *)

\* validate with write-back, validation on, on a record whose first field
\* is a non-nil pointer carrying rules
PointerCall ==
    /\ OnRecord
    /\ last.opts.modifyOriginal /\ ~last.opts.skipValidation
    /\ Rec.f[1].kind = "ptr" /\ ~IsNil(Rec.f[1])
    /\ Annotated(StructFields(Rec.typ)[1])

\* C29: with write-back, validating a record with a non-nil pointer field
\* ends without a fault, and the field of the caller's record is still a
\* pointer of its declared type, to the value emitted for the field.
C29_PointerWriteBack ==
    PointerCall =>
        /\ last.err.kind # "panic"
        /\ last.after.f[1].f[1].kind = "ptr"
        /\ last.after.f[1].f[1].typ = Rec.f[1].typ
        /\ last.err = NoErr =>
              last.after.f[1].f[1].f[1] = Emitted(FieldName(StructFields(Rec.typ)[1]))

\* without write-back the same call ends without a fault and the pointer is
\* left as it was
PointerLeftAlone ==
    (/\ OnRecord /\ ~last.opts.modifyOriginal
     /\ Rec.f[1].kind = "ptr" /\ ~IsNil(Rec.f[1]))
        => last.err.kind # "panic" /\ last.after = last.data

----------------------------------------------------------------------------
(* Termination on record types that contain themselves *)

\* the records a record holds
Holds(n) == ({graph[n].next} \cup {graph[n].kids[i] : i \in 1..Len(graph[n].kids)}) \ {0}

RECURSIVE ReachFrom(_, _)
\* the records reached from the records of S in at most k steps
ReachFrom(S, k) ==
    IF k = 0 THEN S ELSE ReachFrom(S \cup UNION {Holds(n) : n \in S}, k - 1)

\* a record of the value passed leads back to itself
Cyclic ==
    \E n \in ReachFrom({1}, Cardinality(Nodes)) : n \in ReachFrom(Holds(n), Cardinality(Nodes))

\* C30: validate on a value of a record type that contains itself through a
\* pointer field or a dived sequence returns, whether the references end in
\* a nil pointer or lead back to a record that is being visited.
C30_ValidateReturns == (walk.pc = "walking") ~> (walk.pc = "returned")

\* it returns when no record leads back to itself
ReturnsWhenAcyclic == (walk.pc = "walking" /\ ~Cyclic) ~> (walk.pc = "returned")

\* and it never returns when one does
NeverReturnsWhenCyclic == Cyclic => walk.pc # "returned"

====
